---------------------------- MODULE Spec2Model ----------------------------
(***************************************************************************)
(* State-machine model of the grblHAL MSP430F5529 driver (driver.c): the   *)
(* stepper rate timer, the step pulse timer, the spindle PWM, the limit    *)
(* debounce and the control inputs.  Registers are integers of their       *)
(* hardware width, C bit operators are computed bit by bit, interrupt      *)
(* handlers are actions that fire when their interrupt source is pending   *)
(* and enabled.                                                            *)
(***************************************************************************)
EXTENDS Integers, Sequences, FiniteSets, TLC

(***************************************************************************)
(* C integer operators                                                     *)
(***************************************************************************)
RECURSIVE BitAnd(_, _)
BitAnd(a, b) ==
    IF a = 0 \/ b = 0 THEN 0
    ELSE (a % 2) * (b % 2) + 2 * BitAnd(a \div 2, b \div 2)

RECURSIVE BitOr(_, _)
BitOr(a, b) ==
    IF a = 0 THEN b
    ELSE IF b = 0 THEN a
    ELSE (IF (a % 2) + (b % 2) > 0 THEN 1 ELSE 0) + 2 * BitOr(a \div 2, b \div 2)

RECURSIVE BitXor(_, _)
BitXor(a, b) ==
    IF a = 0 THEN b
    ELSE IF b = 0 THEN a
    ELSE (((a % 2) + (b % 2)) % 2) + 2 * BitXor(a \div 2, b \div 2)

\* a & ~m
BitClear(a, m) == a - BitAnd(a, m)

RECURSIVE Pow2(_)
Pow2(n) == IF n = 0 THEN 1 ELSE 2 * Pow2(n - 1)

\* x >> n and x << n on unsigned values
ShiftRight(x, n) == x \div Pow2(n)
ShiftLeft(x, n) == x * Pow2(n)

\* number of one bits
RECURSIVE BitCount(_)
BitCount(a) == IF a = 0 THEN 0 ELSE (a % 2) + BitCount(a \div 2)

(***************************************************************************)
(* Timer_A register bits (msp430.h), as the driver uses them               *)
(***************************************************************************)
TAIFG == 1
TACLR == 4
MC0 == 16
MC1 == 32
ID0 == 64
ID1 == 128
TASSEL1 == 512
TAIDEX_0 == 0
TAIDEX_7 == 7
CCIE == 16
OUTMOD_2 == 64

\* A write to TAxCTL: TACLR resets the counter and always reads back as zero.
TimerCtlWrite(v) == BitClear(v, TACLR)

TimerRunning(ctl) == BitAnd(ctl, MC0 + MC1) # 0

\* Input divider selected by the ID bits: /1, /2, /4, /8.
InputDivider(ctl) == Pow2(ShiftRight(BitAnd(ctl, ID0 + ID1), 6))

\* Extended divider selected by TAxEX0: TAIDEX_n divides by n + 1.
ExtendedDivider(ex0) == ex0 + 1

(***************************************************************************)
(* Bounds of the model                                                     *)
(***************************************************************************)
\* cycles_per_tick inputs: this many values on each side of every threshold
MaxDelta == 2
\* callback invocations counted per wake-up
MaxCalls == 3

Thresholds == {Pow2(16), Pow2(19), Pow2(22)}

\* the largest cycles_per_tick the model draws: 2^31 - 1, the largest integer of
\* the checker (every value from 2^22 on takes the same path through both setters)
MaxCycles == (Pow2(30) - 1) * 2 + 1

\* uint32_t cycles_per_tick inputs around the thresholds of the two setters
CycleInputs ==
    (0 .. MaxDelta)
    \cup {t - k : t \in Thresholds, k \in 1 .. MaxDelta}
    \cup {t + k : t \in Thresholds, k \in 0 .. (MaxDelta - 1)}
    \cup {MaxCycles - k : k \in 0 .. (MaxDelta - 1)}

(***************************************************************************)
(* State                                                                   *)
(***************************************************************************)
VARIABLES
    \* configuration
    settings,               \* the global settings struct (the fields the driver reads)
    \* stepper rate timer
    STEPPER_TIMER_CTL,      \* TAxCTL of the rate timer
    STEPPER_TIMER_EX0,      \* TAxEX0 of the rate timer
    STEPPER_TIMER_CCR0,     \* countdown (period) register, 16 bit
    hal_cycles_per_tick,    \* hal.stepper_cycles_per_tick: "amass" | "prescaled"
    busy,                   \* reentrancy flag of stepper_driver_isr
    priming,                \* the callback invoked by stepperWakeUp is running
    cb_calls,               \* callback invocations since the last stepperWakeUp began
    wake_after_idle,        \* the running/last stepperWakeUp directly followed stepperGoIdle
    \* step pulse timer and motion outputs
    PULSE_TIMER_CTL,        \* TAxCTL of the pulse timer
    PULSE_TIMER_CCTL1,      \* compare control 1 (CCIE: delay compare interrupt)
    PULSE_TIMER_CCR0,       \* pulse end compare value
    PULSE_TIMER_CCR1,       \* delay compare value
    pulse_cnt,              \* pulse timer counter: "below" or "past" the delay compare value
    step_pulse_ticks,
    STEP_PORT_OUT,
    DIRECTION_PORT_OUT,
    step_port_invert,
    dir_port_invert,
    next_step_outbits,
    hal_stepper_pulse_start, \* hal.stepper_pulse_start: "immediate" | "delayed"
    ps_pc,                  \* position inside the running pulse start function
    stepper,                \* the stepper_t descriptor of the last pulse start
    pulse_started,          \* a step pulse has been started since driver_setup
    \* spindle
    current_pwm,            \* static current_pwm of stepperPulseStart
    current_pwm_delayed,    \* static current_pwm of stepperPulseStartDelayed
    pwmEnabled,
    PWM_TIMER_CCR1,
    PWM_TIMER_CCTL1,
    SPINDLE_ENABLE_OUT,
    hal_spindle_pwm_off,    \* hal.spindle_pwm_off
    \* control inputs
    CONTROL_PORT_IN,        \* raw levels of the control pins
    control_state,          \* the control_signals_t value systemGetState returned last
    \* limit inputs and software debounce
    LIMIT_PORT_IN,          \* raw levels of the limit pins
    LIMIT_PORT_IFG,         \* latched edge flags
    LIMIT_PORT_IE,          \* pin change interrupt enable
    LIMIT_PORT_IES,         \* edge select: bit set = high-to-low, clear = low-to-high
    WDTIE,                  \* SFRIE1 & WDTIE: the debounce tick interrupt is enabled
    debounce_count,         \* uint16_t
    software_debounce,      \* hal.driver_cap.software_debounce
    lim_cbs,                \* arguments of the hal.limit_interrupt_callback invocations
    lim_edges,              \* limit pin changes so far
    lim_settled,            \* the limit pins change no more
    lim_ticks,              \* debounce ticks since the first edge armed the window
    \* system
    sys_spindle_rpm,        \* sys.spindle_rpm, in hundredths of an rpm
    SPINDLE_DIRECTION_OUT,
    \* main flow against interrupt handlers
    sc_pc,                  \* position of the main flow inside settings_changed
    \* driver_delay_ms / systick_isr
    ms_delay, delayCallback, SYSTICK_TIMER_CTL, SYSTICK_TIMER_CCR0,
    dl_pc,                  \* main flow: "idle", or "waiting" in while(ms_delay)
    dl_requested,           \* per callback: number of requests that passed it
    dl_invoked,             \* per callback: number of invocations
    \* bitsSetAtomic / bitsClearAtomic / valueSetAtomic
    GIE,                    \* general interrupt enable
    at_word,                \* *ptr, the shared flag word
    at_pc,                  \* main flow inside a helper: "idle", "read", "write", "eint"
    at_op,                  \* the helper being executed and its argument
    at_prev,                \* the word as the helper has read it
    at_ret,                 \* value returned by the last helper call
    \* serial transmit queue (STM32F4xx serial.c)
    txbuf,                  \* [head, tail, data]
    USART_CR1_TXEIE,        \* transmit-register-empty interrupt enable
    tx_pc,                  \* main flow inside serialPutC
    tx_c, tx_next_head,     \* serialPutC's c and next_head
    tx_accepted,            \* bytes enqueued by serialPutC calls that return true
    tx_sent,                \* bytes the handler has written to USART->DR
    tx_refused,             \* number of calls that returned false
    \* serial receive queue
    rxbuf,                  \* [head, tail, data, overflow, backup]
    rxbackup,               \* copy of rxbuf taken on CMD_TOOL_ACK
    rx_pc, rx_bptr,         \* main flow inside serialGetC and its bptr
    rx_ret,                 \* value returned by the last serialGetC call
    rx_kept,                \* received bytes neither realtime nor dropped nor tool ack
    rx_got,                 \* bytes returned by serialGetC so far
    rx_count,               \* bytes received so far
    \* history
    last                    \* the operation that produced this state, with its argument

vars_rate == <<STEPPER_TIMER_CTL, STEPPER_TIMER_EX0, STEPPER_TIMER_CCR0,
               hal_cycles_per_tick, busy, priming, cb_calls, wake_after_idle>>

vars_pulse == <<PULSE_TIMER_CTL, PULSE_TIMER_CCTL1, PULSE_TIMER_CCR0, PULSE_TIMER_CCR1,
                pulse_cnt, step_pulse_ticks, STEP_PORT_OUT, DIRECTION_PORT_OUT,
                step_port_invert, dir_port_invert, next_step_outbits,
                hal_stepper_pulse_start, ps_pc, stepper, pulse_started>>

vars_pwm == <<pwmEnabled, PWM_TIMER_CCR1, PWM_TIMER_CCTL1, SPINDLE_ENABLE_OUT>>

vars_spindle == <<current_pwm, current_pwm_delayed, vars_pwm, hal_spindle_pwm_off>>

vars_control == <<CONTROL_PORT_IN, control_state>>

vars_limit == <<LIMIT_PORT_IN, LIMIT_PORT_IFG, LIMIT_PORT_IE, LIMIT_PORT_IES, WDTIE,
                debounce_count, software_debounce, lim_cbs, lim_edges, lim_settled,
                lim_ticks>>

vars_inputs == <<vars_control, vars_limit>>

vars_delay == <<ms_delay, delayCallback, SYSTICK_TIMER_CTL, SYSTICK_TIMER_CCR0,
                dl_pc, dl_requested, dl_invoked>>

vars_atomic == <<GIE, at_word, at_pc, at_op, at_prev, at_ret>>

vars_tx == <<txbuf, USART_CR1_TXEIE, tx_pc, tx_c, tx_next_head, tx_accepted, tx_sent,
             tx_refused>>

vars_rx == <<rxbuf, rxbackup, rx_pc, rx_bptr, rx_ret, rx_kept, rx_got, rx_count>>

vars_serial == <<vars_tx, vars_rx>>

vars_conc == <<sc_pc, vars_delay, vars_atomic, vars_serial>>

vars_sys == <<sys_spindle_rpm, SPINDLE_DIRECTION_OUT, vars_conc>>

vars == <<settings, vars_rate, vars_pulse, vars_spindle, vars_inputs, vars_sys, last>>

\* what the rate timer operations leave alone
not_rate == <<settings, vars_pulse, vars_spindle, vars_inputs, vars_sys>>

\* what the input handlers leave alone
not_delay == <<settings, vars_rate, vars_pulse, vars_spindle, vars_inputs,
               sys_spindle_rpm, SPINDLE_DIRECTION_OUT, sc_pc, vars_atomic,
               vars_serial>>

not_atomic == <<settings, vars_rate, vars_pulse, vars_spindle, vars_inputs,
                sys_spindle_rpm, SPINDLE_DIRECTION_OUT, sc_pc, vars_delay,
                vars_serial>>

not_serial == <<settings, vars_rate, vars_pulse, vars_spindle, vars_inputs,
                sys_spindle_rpm, SPINDLE_DIRECTION_OUT, sc_pc, vars_delay,
                vars_atomic>>

not_inputs == <<settings, vars_rate, vars_pulse, vars_spindle, vars_sys>>

Op(name) == [op |-> name, arg |-> 0, wr |-> 0]
OpArg(name, a, w) == [op |-> name, arg |-> a, wr |-> w]

(***************************************************************************)
(* Stepper rate timer                                                      *)
(***************************************************************************)
\* driver_setup: timer configured (SMCLK, /1), stopped; setter chosen by AMASS level
InitRate(amass_levels) ==
    /\ STEPPER_TIMER_EX0 = TAIDEX_0
    /\ STEPPER_TIMER_CTL =
          TimerCtlWrite(BitOr(BitClear(0, ID0 + ID1 + TAIFG), TACLR + TASSEL1))
    /\ STEPPER_TIMER_CCR0 = 0
    /\ hal_cycles_per_tick \in {IF l = 0 THEN "prescaled" ELSE "amass" : l \in amass_levels}
    /\ busy = FALSE
    /\ priming = FALSE
    /\ cb_calls = 0
    /\ wake_after_idle = FALSE

\* value assigned to STEPPER_TIMER_CCR0 by stepperCyclesPerTick
CyclesPerTickCCR0(c) == IF c < Pow2(16) THEN c ELSE 65535

stepperCyclesPerTick(c) ==
    /\ STEPPER_TIMER_CTL' = TimerCtlWrite(BitOr(STEPPER_TIMER_CTL, TACLR))
    /\ STEPPER_TIMER_CCR0' = CyclesPerTickCCR0(c) % Pow2(16)
    /\ last' = OpArg("amass", c, CyclesPerTickCCR0(c))
    /\ UNCHANGED <<STEPPER_TIMER_EX0, hal_cycles_per_tick, busy, priming,
                   cb_calls, wake_after_idle>>
    /\ UNCHANGED not_rate

\* the three prescale branches of stepperCyclesPerTickPrescaled
PrescaledEX0(c) ==
    IF c < Pow2(16) THEN TAIDEX_0
    ELSE IF c < Pow2(19) THEN TAIDEX_0
    ELSE TAIDEX_7

PrescaledCTL(ctl, c) ==
    IF c < Pow2(16) THEN BitClear(ctl, ID0 + ID1)
    ELSE IF c < Pow2(19) THEN BitOr(ctl, ID0 + ID1)
    ELSE BitAnd(ctl, ID0 + ID1)

PrescaledCycles(c) ==
    IF c < Pow2(16) THEN c
    ELSE IF c < Pow2(19) THEN ShiftRight(c, 3)
    ELSE ShiftRight(c, 6)

\* the prescaled setter without its cap: the rescaled value written as it is
PrescaledCCR0_Uncapped(c) == PrescaledCycles(c)

\* value assigned to STEPPER_TIMER_CCR0 by stepperCyclesPerTickPrescaled
PrescaledCCR0(c) ==
    IF PrescaledCycles(c) < Pow2(16) THEN PrescaledCycles(c) ELSE 65535

stepperCyclesPerTickPrescaled(c) ==
    /\ STEPPER_TIMER_EX0' = PrescaledEX0(c)
    /\ STEPPER_TIMER_CTL' =
          TimerCtlWrite(BitOr(PrescaledCTL(STEPPER_TIMER_CTL, c), TACLR + MC0))
    /\ STEPPER_TIMER_CCR0' = PrescaledCCR0(c) % Pow2(16)
    /\ last' = OpArg("prescaled", c, PrescaledCCR0(c))
    /\ UNCHANGED <<hal_cycles_per_tick, busy, priming, cb_calls, wake_after_idle>>
    /\ UNCHANGED not_rate

\* hal.stepper_cycles_per_tick(c), called by the planner
CyclesPerTick ==
    \E c \in CycleInputs :
        IF hal_cycles_per_tick = "prescaled"
        THEN stepperCyclesPerTickPrescaled(c)
        ELSE stepperCyclesPerTick(c)

\* stepperWakeUp up to and including its call of hal.stepper_interrupt_callback;
\* the planner calls it from the main flow, not from inside its own callback
stepperWakeUp ==
    /\ ~priming /\ ~busy
    /\ STEPPER_TIMER_CCR0' = 65535
    /\ STEPPER_TIMER_CTL' = TimerCtlWrite(BitOr(STEPPER_TIMER_CTL, TACLR + MC0))
    /\ priming' = TRUE
    /\ cb_calls' = 1
    /\ wake_after_idle' = (last.op = "goIdle")
    /\ last' = Op("wakeUp")
    /\ UNCHANGED <<STEPPER_TIMER_EX0, hal_cycles_per_tick, busy>>
    /\ UNCHANGED not_rate

\* the callback invoked by stepperWakeUp returns, and stepperWakeUp with it
stepperWakeUpReturn ==
    /\ priming /\ ~busy
    /\ priming' = FALSE
    /\ last' = Op("wakeUpReturn")
    /\ UNCHANGED <<STEPPER_TIMER_CTL, STEPPER_TIMER_EX0, STEPPER_TIMER_CCR0,
                   hal_cycles_per_tick, busy, cb_calls, wake_after_idle>>
    /\ UNCHANGED not_rate

stepperGoIdle ==
    /\ STEPPER_TIMER_CTL' = TimerCtlWrite(BitClear(STEPPER_TIMER_CTL, MC0 + MC1))
    /\ last' = Op("goIdle")
    /\ UNCHANGED <<STEPPER_TIMER_EX0, STEPPER_TIMER_CCR0, hal_cycles_per_tick,
                   busy, priming, cb_calls, wake_after_idle>>
    /\ UNCHANGED not_rate

\* rate timer compare interrupt: entry of stepper_driver_isr up to the callback call
stepper_driver_isr ==
    /\ TimerRunning(STEPPER_TIMER_CTL)
    /\ priming => cb_calls < MaxCalls
    /\ IF ~busy
       THEN /\ busy' = TRUE
            /\ cb_calls' = IF priming THEN cb_calls + 1 ELSE cb_calls
            /\ last' = Op("isr")
       ELSE /\ UNCHANGED <<busy, cb_calls>>
            /\ last' = Op("isrSkipped")
    /\ UNCHANGED <<STEPPER_TIMER_CTL, STEPPER_TIMER_EX0, STEPPER_TIMER_CCR0,
                   hal_cycles_per_tick, priming, wake_after_idle>>
    /\ UNCHANGED not_rate

\* the callback invoked by stepper_driver_isr returns: busy = false
stepper_driver_isr_return ==
    /\ busy
    /\ busy' = FALSE
    /\ last' = Op("isrReturn")
    /\ UNCHANGED <<STEPPER_TIMER_CTL, STEPPER_TIMER_EX0, STEPPER_TIMER_CCR0,
                   hal_cycles_per_tick, priming, cb_calls, wake_after_idle>>
    /\ UNCHANGED not_rate

(***************************************************************************)
(* Configuration                                                           *)
(***************************************************************************)
\* pin masks of driver.h, as driver.c uses them: three step pins one bit above
\* the logical axis bits (<< 1), three direction pins at the logical axis bits
HWSTEP_MASK == 14
HWDIRECTION_MASK == 7
SPINDLE_ENABLE_PIN == 4
SPINDLE_DIRECTION_PIN == 8

\* control pins and the bits of control_signals_t
RESET_PIN == 16
FEED_HOLD_PIN == 32
CYCLE_START_PIN == 64
SAFETY_DOOR_PIN == 128
HWCONTROL_MASK == RESET_PIN + FEED_HOLD_PIN + CYCLE_START_PIN + SAFETY_DOOR_PIN
SIGNAL_RESET == 1
SIGNAL_FEED_HOLD == 2
SIGNAL_CYCLE_START == 4
SIGNAL_SAFETY_DOOR == 8

\* limit pins; the axis bits of axes_signals_t are x = bit 0, y = bit 1, z = bit 2
X_LIMIT_PIN == 2
Y_LIMIT_PIN == 8
Z_LIMIT_PIN == 32
HWLIMIT_MASK == X_LIMIT_PIN + Y_LIMIT_PIN + Z_LIMIT_PIN

DefaultSettings ==
    [ step_invert |-> 0,
      dir_invert |-> 0,
      pulse_microseconds |-> 10,
      pulse_delay_microseconds |-> 0,
      spindle_pwm_freq |-> 31250,
      spindle_pwm_off_value |-> 0,
      spindle_invert_on |-> FALSE,
      spindle_invert_ccw |-> FALSE,
      spindle_disable_with_zero_speed |-> FALSE,
      spindle_pwm_min_value |-> 0,
      spindle_pwm_max_value |-> 100,
      rpm_min |-> 0,
      rpm_max |-> 1000,
      control_invert |-> 0,
      limit_invert |-> 0,
      limit_disable_pullup |-> 0,
      hard_limit_enable |-> TRUE ]

\* spindle_pwm.period and spindle_pwm.off_value as settings_changed derives them
SpindlePeriod(s) == 3125000 \div s.spindle_pwm_freq
SpindleOffValue(s) == (SpindlePeriod(s) * s.spindle_pwm_off_value) \div 100

\* spindle_pwm.min_value and spindle_pwm.max_value as settings_changed derives them
SpindleMinValue(s) == (SpindlePeriod(s) * s.spindle_pwm_min_value) \div 100
SpindleMaxValue(s) == (SpindlePeriod(s) * s.spindle_pwm_max_value) \div 100

\* step_pulse_ticks (uint16_t) as settings_changed derives it
StepPulseTicks(s) == (s.pulse_microseconds * 5 - 1) % Pow2(16)

\* bit n (0, 1, ...) of mask
AxisBit(mask, n) == BitAnd(ShiftRight(mask, n), 1)

\* LIMIT_PORT_IES as settings_changed programs it: limit_ies.mask is
\* ~(limit_disable_pullup ^ limit_invert); a set axis bit clears the pin's IES bit
LimitIES(s, ies) ==
    LET m == BitXor(s.limit_disable_pullup, s.limit_invert)
    IN  BitOr(BitClear(ies, HWLIMIT_MASK),
              AxisBit(m, 0) * X_LIMIT_PIN + AxisBit(m, 1) * Y_LIMIT_PIN
                  + AxisBit(m, 2) * Z_LIMIT_PIN)

\* settings_changed(&settings) with IOInitDone set: the derived constants and
\* the peripherals reprogrammed from s
settings_changed(s) ==
    /\ step_port_invert' = s.step_invert
    /\ dir_port_invert' = s.dir_invert
    /\ hal_spindle_pwm_off' = SpindleOffValue(s)
    /\ step_pulse_ticks' = StepPulseTicks(s)
    /\ IF s.pulse_delay_microseconds # 0
       THEN /\ hal_stepper_pulse_start' = "delayed"
            /\ PULSE_TIMER_CCR1' = s.pulse_delay_microseconds * 5
            /\ PULSE_TIMER_CCR0' =
                  (StepPulseTicks(s) + s.pulse_delay_microseconds * 5) % Pow2(16)
            /\ PULSE_TIMER_CCTL1' = BitOr(PULSE_TIMER_CCTL1, CCIE)
       ELSE /\ PULSE_TIMER_CCTL1' = BitClear(PULSE_TIMER_CCTL1, CCIE)
            /\ hal_stepper_pulse_start' = "immediate"
            /\ PULSE_TIMER_CCR0' = StepPulseTicks(s)
            /\ UNCHANGED PULSE_TIMER_CCR1
    /\ PWM_TIMER_CCTL1' = 0
    /\ LIMIT_PORT_IES' = LimitIES(s, LIMIT_PORT_IES)

\* the core stores new settings and calls hal.settings_changed; stepping is halted
SettingsChange(S) ==
    /\ ps_pc = "idle"
    /\ ~TimerRunning(PULSE_TIMER_CTL)
    /\ \E s \in S :
        /\ settings' = s
        /\ settings_changed(s)
    /\ last' = Op("settings")
    /\ UNCHANGED <<vars_rate, vars_sys, vars_control, LIMIT_PORT_IN, LIMIT_PORT_IFG, LIMIT_PORT_IE,
                   WDTIE, debounce_count, software_debounce, lim_cbs, lim_edges,
                   lim_settled, lim_ticks, PULSE_TIMER_CTL, pulse_cnt, STEP_PORT_OUT,
                   DIRECTION_PORT_OUT, next_step_outbits, ps_pc, stepper,
                   pulse_started, current_pwm, current_pwm_delayed, pwmEnabled,
                   PWM_TIMER_CCR1, SPINDLE_ENABLE_OUT>>

\* settings_changed as the main flow executes it, interrupts enabled: the
\* first write (step_port_invert) ...
SettingsChange_first(S) ==
    /\ sc_pc = "idle"
    /\ ps_pc = "idle"
    /\ \E s \in S :
        /\ settings' = s
        /\ step_port_invert' = s.step_invert
    /\ sc_pc' = "writing"
    /\ last' = Op("settings_first")
    /\ UNCHANGED <<vars_rate, vars_spindle, vars_inputs, sys_spindle_rpm, vars_delay,
                   vars_atomic, vars_serial,
                   SPINDLE_DIRECTION_OUT, PULSE_TIMER_CTL, PULSE_TIMER_CCTL1,
                   PULSE_TIMER_CCR0, PULSE_TIMER_CCR1, pulse_cnt, step_pulse_ticks,
                   STEP_PORT_OUT, DIRECTION_PORT_OUT, dir_port_invert,
                   next_step_outbits, hal_stepper_pulse_start, ps_pc, stepper,
                   pulse_started>>

\* ... and the remaining writes, up to the return
SettingsChange_rest ==
    /\ sc_pc = "writing"
    /\ ps_pc = "idle"
    /\ settings_changed(settings)
    /\ sc_pc' = "idle"
    /\ last' = Op("settings")
    /\ UNCHANGED <<settings, vars_rate, sys_spindle_rpm, SPINDLE_DIRECTION_OUT,
                   vars_delay, vars_atomic, vars_serial, vars_control, LIMIT_PORT_IN, LIMIT_PORT_IFG, LIMIT_PORT_IE,
                   WDTIE, debounce_count, software_debounce, lim_cbs, lim_edges,
                   lim_settled, lim_ticks, PULSE_TIMER_CTL, pulse_cnt, STEP_PORT_OUT,
                   DIRECTION_PORT_OUT, next_step_outbits, ps_pc, stepper,
                   pulse_started, current_pwm, current_pwm_delayed, pwmEnabled,
                   PWM_TIMER_CCR1, SPINDLE_ENABLE_OUT>>

(***************************************************************************)
(* Millisecond delay: driver_delay_ms and the delay timer interrupt        *)
(***************************************************************************)
\* The callbacks the core may pass.  PlainCallback returns at once;
\* ChainCallback requests a further delay of 1 ms with PlainCallback from
\* inside the completion.
PlainCallback == "plain"
ChainCallback == "chain"
NullCallback == "null"
DelayCallbacks == {PlainCallback, ChainCallback}

\* the delay state as one record, so that a call nested in a callback can be
\* composed with the handler around it
DelayState ==
    [ms_delay |-> ms_delay, delayCallback |-> delayCallback,
     CTL |-> SYSTICK_TIMER_CTL, CCR0 |-> SYSTICK_TIMER_CCR0,
     requested |-> dl_requested, invoked |-> dl_invoked]

Requested(d, callback) ==
    IF callback = NullCallback THEN d
    ELSE [d EXCEPT !.requested[callback] = @ + 1]

\* driver_delay_ms with ms > 0, up to the busy-wait: the flag, the timer and
\* the single callback slot
driver_delay_ms_arm(d, ms, callback) ==
    [Requested(d, callback) EXCEPT
        !.ms_delay = TRUE,
        !.CCR0 = ms,
        !.CTL = TimerCtlWrite(BitOr(d.CTL, BitOr(TACLR, MC0))),
        !.delayCallback = callback]

\* a callback's body; the completion that chains calls driver_delay_ms
InvokeCallback(d, callback) ==
    LET called == [d EXCEPT !.invoked[callback] = @ + 1]
    IN  IF callback = ChainCallback
        THEN driver_delay_ms_arm(called, 1, PlainCallback)
        ELSE called

\* driver_delay_ms as a whole, for a call that does not busy-wait
driver_delay_ms(d, ms, callback) ==
    IF ms > 0
    THEN driver_delay_ms_arm(d, ms, callback)
    ELSE LET cleared == [Requested(d, callback) EXCEPT !.ms_delay = FALSE]
         IN  IF callback # NullCallback THEN InvokeCallback(cleared, callback) ELSE cleared

SetDelayState(d) ==
    /\ ms_delay' = d.ms_delay
    /\ delayCallback' = d.delayCallback
    /\ SYSTICK_TIMER_CTL' = d.CTL
    /\ SYSTICK_TIMER_CCR0' = d.CCR0
    /\ dl_requested' = d.requested
    /\ dl_invoked' = d.invoked

\* the main flow calls driver_delay_ms; without a callback and with ms > 0 it
\* stays in while(ms_delay)
DriverDelay(Ms, Cbs, MaxRequests) ==
    /\ dl_pc = "idle"
    /\ dl_requested[PlainCallback] + dl_requested[ChainCallback] < MaxRequests
    /\ \E ms \in Ms, callback \in Cbs :
        /\ SetDelayState(driver_delay_ms(DelayState, ms, callback))
        /\ dl_pc' = IF ms > 0 /\ callback = NullCallback THEN "waiting" ELSE "idle"
        /\ last' = OpArg("delay", ms, callback)
    /\ UNCHANGED not_delay

\* while(ms_delay) falls through once the flag is clear
driver_delay_ms_return ==
    /\ dl_pc = "waiting"
    /\ ~ms_delay
    /\ dl_pc' = "idle"
    /\ last' = Op("delayReturn")
    /\ UNCHANGED <<not_delay, ms_delay, delayCallback, SYSTICK_TIMER_CTL,
                   SYSTICK_TIMER_CCR0, dl_requested, dl_invoked>>

\* systick_isr: the delay timer has counted to CCR0
systick_isr ==
    /\ TimerRunning(SYSTICK_TIMER_CTL)
    /\ LET stopped == [DelayState EXCEPT
                          !.ms_delay = FALSE,
                          !.CTL = BitClear(SYSTICK_TIMER_CTL, BitOr(MC0, MC1))]
           done == IF delayCallback # NullCallback
                   THEN [InvokeCallback(stopped, delayCallback)
                            EXCEPT !.delayCallback = NullCallback]
                   ELSE stopped
       IN  SetDelayState(done)
    /\ last' = OpArg("systick", delayCallback, 0)
    /\ UNCHANGED <<not_delay, dl_pc>>

InitDelay ==
    /\ ms_delay = FALSE
    /\ delayCallback = NullCallback
    /\ SYSTICK_TIMER_CTL = 0
    /\ SYSTICK_TIMER_CCR0 = 1
    /\ dl_pc = "idle"
    /\ dl_requested = [c \in DelayCallbacks |-> 0]
    /\ dl_invoked = [c \in DelayCallbacks |-> 0]

(***************************************************************************)
(* Atomic helpers for shared flag words                                    *)
(***************************************************************************)
\* the word after the helper's modification of content old
AtomicApply(fn, old, arg) ==
    CASE fn = "bitsSet"   -> BitOr(old, arg)
      [] fn = "bitsClear" -> BitClear(old, arg)
      [] fn = "valueSet"  -> arg

\* entry of a helper without _DINT()
AtomicEnter_NoDint(Fns, Args) ==
    /\ at_pc = "idle"
    /\ \E fn \in Fns, arg \in Args :
        /\ at_op' = [fn |-> fn, arg |-> arg]
        /\ last' = OpArg("atomicEnter", fn, arg)
    /\ at_pc' = "read"
    /\ UNCHANGED <<not_atomic, GIE, at_word, at_prev, at_ret>>

\* entry of a helper: _DINT()
AtomicEnter(Fns, Args) ==
    /\ at_pc = "idle"
    /\ \E fn \in Fns, arg \in Args :
        /\ at_op' = [fn |-> fn, arg |-> arg]
        /\ last' = OpArg("atomicEnter", fn, arg)
    /\ GIE' = FALSE
    /\ at_pc' = "read"
    /\ UNCHANGED <<not_atomic, at_word, at_prev, at_ret>>

\* prev = *ptr (the read half of |= in bitsSetAtomic)
AtomicRead ==
    /\ at_pc = "read"
    /\ at_prev' = at_word
    /\ at_pc' = "write"
    /\ last' = OpArg("atomicRead", at_op, at_word)
    /\ UNCHANGED <<not_atomic, GIE, at_word, at_op, at_ret>>

\* *ptr = the modification of what was read
AtomicWrite ==
    /\ at_pc = "write"
    /\ at_word' = AtomicApply(at_op.fn, at_prev, at_op.arg)
    /\ at_pc' = "eint"
    /\ last' = OpArg("atomicWrite", at_op, at_word)
    /\ UNCHANGED <<not_atomic, GIE, at_op, at_prev, at_ret>>

\* _EINT(); return prev
AtomicReturn ==
    /\ at_pc = "eint"
    /\ GIE' = TRUE
    /\ at_ret' = IF at_op.fn = "bitsSet" THEN at_ret ELSE at_prev
    /\ at_pc' = "idle"
    /\ last' = OpArg("atomicReturn", at_op, last.wr)
    /\ UNCHANGED <<not_atomic, at_word, at_op, at_prev>>

\* an interrupt handler that sets or clears bits of the same word; it is
\* taken only with GIE set and runs to completion
AtomicWordIsr(Bits) ==
    /\ GIE
    /\ \E bits \in Bits, set \in BOOLEAN :
        /\ at_word' = IF set THEN BitOr(at_word, bits) ELSE BitClear(at_word, bits)
        /\ last' = OpArg("wordIsr", bits, set)
    /\ UNCHANGED <<not_atomic, GIE, at_pc, at_op, at_prev, at_ret>>

InitAtomic ==
    /\ GIE = TRUE
    /\ at_word = 0
    /\ at_pc = "idle"
    /\ at_op = [fn |-> "bitsSet", arg |-> 0]
    /\ at_prev = 0
    /\ at_ret = 0

(***************************************************************************)
(* Serial transmit queue: serialPutC against the USART interrupt           *)
(***************************************************************************)
\* ring size (a power of two: serialPutC wraps with a mask, the handler by
\* comparison) and the content of a slot never written
TX_BUFFER_SIZE == 4
NoByte == "nul"

\* the queued bytes, oldest first: the slots from tail up to head
RECURSIVE RingContent(_, _, _, _)
RingContent(data, tail, head, size) ==
    IF tail = head THEN <<>>
    ELSE <<data[tail]>> \o RingContent(data, (tail + 1) % size, head, size)

\* serialPutC(c), entry: next_head = (txbuf.head + 1) & (TX_BUFFER_SIZE - 1)
serialPutC_enter(Chars, MaxCalls_) ==
    /\ tx_pc = "idle"
    /\ Len(tx_accepted) + tx_refused < MaxCalls_
    /\ \E c \in Chars :
        /\ tx_c' = c
        /\ last' = OpArg("putC", c, 0)
    /\ tx_next_head' = BitAnd(txbuf.head + 1, TX_BUFFER_SIZE - 1)
    /\ tx_pc' = "wait"
    /\ UNCHANGED <<not_serial, vars_rx, txbuf, USART_CR1_TXEIE, tx_accepted, tx_sent, tx_refused>>

\* one evaluation of while(txbuf.tail == next_head) that stores c before it
\* asks hal.stream_blocking_callback()
serialPutC_wait_StoreFirst ==
    /\ tx_pc = "wait"
    /\ IF txbuf.tail = tx_next_head
       THEN \E blocking \in BOOLEAN :
              IF blocking
              THEN /\ last' = OpArg("putC_wait", tx_c, 0)
                   /\ UNCHANGED <<tx_pc, tx_refused, txbuf>>
              ELSE /\ tx_pc' = "idle"
                   /\ tx_refused' = tx_refused + 1
                   /\ txbuf' = [txbuf EXCEPT !.data[txbuf.head] = tx_c]
                   /\ last' = OpArg("putC_false", tx_c, txbuf)
       ELSE /\ tx_pc' = "store"
            /\ last' = OpArg("putC_free", tx_c, 0)
            /\ UNCHANGED <<tx_refused, txbuf>>
    /\ UNCHANGED <<not_serial, vars_rx, USART_CR1_TXEIE, tx_c, tx_next_head, tx_accepted,
                   tx_sent>>

\* one evaluation of while(txbuf.tail == next_head): when the queue is full the
\* answer of hal.stream_blocking_callback() decides between waiting on and
\* return false
serialPutC_wait ==
    /\ tx_pc = "wait"
    /\ IF txbuf.tail = tx_next_head
       THEN \E blocking \in BOOLEAN :
              IF blocking
              THEN /\ last' = OpArg("putC_wait", tx_c, 0)
                   /\ UNCHANGED <<tx_pc, tx_refused>>
              ELSE /\ tx_pc' = "idle"
                   /\ tx_refused' = tx_refused + 1
                   /\ last' = OpArg("putC_false", tx_c, txbuf)
       ELSE /\ tx_pc' = "store"
            /\ last' = OpArg("putC_free", tx_c, 0)
            /\ UNCHANGED tx_refused
    /\ UNCHANGED <<not_serial, vars_rx, txbuf, USART_CR1_TXEIE, tx_c, tx_next_head, tx_accepted,
                   tx_sent>>

\* txbuf.data[txbuf.head] = c
serialPutC_store ==
    /\ tx_pc = "store"
    /\ txbuf' = [txbuf EXCEPT !.data[txbuf.head] = tx_c]
    /\ tx_pc' = "head"
    /\ last' = OpArg("putC_store", tx_c, 0)
    /\ UNCHANGED <<not_serial, vars_rx, USART_CR1_TXEIE, tx_c, tx_next_head, tx_accepted,
                   tx_sent, tx_refused>>

\* txbuf.head = next_head: the byte is in the queue, the call will return true
serialPutC_head ==
    /\ tx_pc = "head"
    /\ txbuf' = [txbuf EXCEPT !.head = tx_next_head]
    /\ tx_accepted' = Append(tx_accepted, tx_c)
    /\ tx_pc' = "enable"
    /\ last' = OpArg("putC_head", tx_c, 0)
    /\ UNCHANGED <<not_serial, vars_rx, USART_CR1_TXEIE, tx_c, tx_next_head, tx_sent, tx_refused>>

\* USART->CR1 |= USART_CR1_TXEIE; return true
serialPutC_enable ==
    /\ tx_pc = "enable"
    /\ USART_CR1_TXEIE' = TRUE
    /\ tx_pc' = "idle"
    /\ last' = OpArg("putC_true", tx_c, 0)
    /\ UNCHANGED <<not_serial, vars_rx, txbuf, tx_c, tx_next_head, tx_accepted, tx_sent,
                   tx_refused>>

\* USART_IRQHandler, transmit part: taken when the data register is empty and
\* TXEIE is set; it runs to completion between two steps of the main flow
USART_IRQHandler_tx ==
    /\ USART_CR1_TXEIE
    /\ LET tail == IF txbuf.tail + 1 = TX_BUFFER_SIZE THEN 0 ELSE txbuf.tail + 1
       IN  /\ tx_sent' = Append(tx_sent, txbuf.data[txbuf.tail])
           /\ txbuf' = [txbuf EXCEPT !.tail = tail]
           /\ USART_CR1_TXEIE' = (tail # txbuf.head)
    /\ last' = OpArg("usartTx", txbuf.data[txbuf.tail], txbuf)
    /\ UNCHANGED <<not_serial, vars_rx, tx_pc, tx_c, tx_next_head, tx_accepted, tx_refused>>

(***************************************************************************)
(* Serial receive queue: the USART interrupt against serialGetC            *)
(***************************************************************************)
RX_BUFFER_SIZE == 4
CMD_TOOL_ACK == "ack"

\* hal.stream.enqueue_realtime_command(data): true for the realtime command
\* characters, which the core consumes
enqueue_realtime_command(data) == data \in {"rt", CMD_TOOL_ACK}

\* the receive part of the handler that stores without the full test
USART_IRQHandler_rx_NoFullTest(Bytes, MaxBytes) ==
    /\ rx_count < MaxBytes
    /\ rx_count' = rx_count + 1
    /\ \E data \in Bytes :
        LET next_head == BitAnd(rxbuf.head + 1, RX_BUFFER_SIZE - 1)
        IN  IF data = CMD_TOOL_ACK /\ ~rxbuf.backup
            THEN /\ rxbackup' = rxbuf
                 /\ rxbuf' = [rxbuf EXCEPT !.backup = TRUE, !.tail = rxbuf.head]
                 /\ last' = OpArg("rxAck", data, rxbuf)
                 /\ UNCHANGED rx_kept
            ELSE IF enqueue_realtime_command(data)
            THEN /\ last' = OpArg("rxRealtime", data, rxbuf)
                 /\ UNCHANGED <<rxbuf, rxbackup, rx_kept>>
            ELSE /\ rxbuf' = [rxbuf EXCEPT !.data[rxbuf.head] = data,
                                           !.head = next_head]
                 /\ rx_kept' = Append(rx_kept, data)
                 /\ last' = OpArg("rxStore", data, rxbuf)
                 /\ UNCHANGED rxbackup
    /\ UNCHANGED <<not_serial, vars_tx, rx_pc, rx_bptr, rx_ret, rx_got>>

\* USART_IRQHandler, receive part: a byte has arrived (RXNE)
USART_IRQHandler_rx(Bytes, MaxBytes) ==
    /\ rx_count < MaxBytes
    /\ rx_count' = rx_count + 1
    /\ \E data \in Bytes :
        LET next_head == BitAnd(rxbuf.head + 1, RX_BUFFER_SIZE - 1)
        IN  IF rxbuf.tail = next_head
            THEN /\ rxbuf' = [rxbuf EXCEPT !.overflow = 1]
                 /\ last' = OpArg("rxOverflow", data, rxbuf)
                 /\ UNCHANGED <<rxbackup, rx_kept>>
            ELSE IF data = CMD_TOOL_ACK /\ ~rxbuf.backup
            THEN /\ rxbackup' = rxbuf
                 /\ rxbuf' = [rxbuf EXCEPT !.backup = TRUE, !.tail = rxbuf.head]
                 /\ last' = OpArg("rxAck", data, rxbuf)
                 /\ UNCHANGED rx_kept
            ELSE IF enqueue_realtime_command(data)
            THEN /\ last' = OpArg("rxRealtime", data, rxbuf)
                 /\ UNCHANGED <<rxbuf, rxbackup, rx_kept>>
            ELSE /\ rxbuf' = [rxbuf EXCEPT !.data[rxbuf.head] = data,
                                           !.head = next_head]
                 /\ rx_kept' = Append(rx_kept, data)
                 /\ last' = OpArg("rxStore", data, rxbuf)
                 /\ UNCHANGED rxbackup
    /\ UNCHANGED <<not_serial, vars_tx, rx_pc, rx_bptr, rx_ret, rx_got>>

\* serialGetC, entry: bptr = rxbuf.tail
serialGetC_enter ==
    /\ rx_pc = "idle"
    /\ rx_bptr' = rxbuf.tail
    /\ rx_pc' = "compare"
    /\ last' = OpArg("getC", rxbuf.tail, rxbuf)
    /\ UNCHANGED <<not_serial, vars_tx, rxbuf, rxbackup, rx_ret, rx_kept, rx_got, rx_count>>

\* if(bptr == rxbuf.head) return -1
serialGetC_compare ==
    /\ rx_pc = "compare"
    /\ IF rx_bptr = rxbuf.head
       THEN /\ rx_ret' = -1
            /\ rx_pc' = "idle"
            /\ last' = OpArg("getC_none", -1, rxbuf)
       ELSE /\ rx_pc' = "take"
            /\ last' = OpArg("getC_some", rx_bptr, rxbuf)
            /\ UNCHANGED rx_ret
    /\ UNCHANGED <<not_serial, vars_tx, rxbuf, rxbackup, rx_bptr, rx_kept, rx_got, rx_count>>

\* data = rxbuf.data[bptr++]; rxbuf.tail = bptr & (RX_BUFFER_SIZE - 1); return data
serialGetC_take ==
    /\ rx_pc = "take"
    /\ rx_ret' = rxbuf.data[rx_bptr]
    /\ rx_got' = Append(rx_got, rxbuf.data[rx_bptr])
    /\ rxbuf' = [rxbuf EXCEPT !.tail = BitAnd(rx_bptr + 1, RX_BUFFER_SIZE - 1)]
    /\ rx_pc' = "idle"
    /\ last' = OpArg("getC_take", rxbuf.data[rx_bptr], rxbuf)
    /\ UNCHANGED <<not_serial, vars_tx, rxbackup, rx_bptr, rx_kept, rx_count>>

\* serialInit and the zero-initialised buffers
serialInit ==
    /\ rxbuf = [head |-> 0, tail |-> 0, overflow |-> 0, backup |-> FALSE,
                data |-> [i \in 0 .. RX_BUFFER_SIZE - 1 |-> NoByte]]
    /\ rxbackup = [head |-> 0, tail |-> 0, overflow |-> 0, backup |-> FALSE,
                   data |-> [i \in 0 .. RX_BUFFER_SIZE - 1 |-> NoByte]]
    /\ rx_pc = "idle"
    /\ rx_bptr = 0
    /\ rx_ret = -1
    /\ rx_kept = <<>>
    /\ rx_got = <<>>
    /\ rx_count = 0
    /\ txbuf = [head |-> 0, tail |-> 0, data |-> [i \in 0 .. TX_BUFFER_SIZE - 1 |-> NoByte]]
    /\ USART_CR1_TXEIE = FALSE
    /\ tx_pc = "idle"
    /\ tx_c = NoByte
    /\ tx_next_head = 0
    /\ tx_accepted = <<>>
    /\ tx_sent = <<>>
    /\ tx_refused = 0

(***************************************************************************)
(* Spindle PWM                                                             *)
(***************************************************************************)
\* SPINDLE_ENABLE_OUT after spindleOff() / spindleOn()
spindleOff(out) ==
    IF settings.spindle_invert_on
    THEN BitOr(out, SPINDLE_ENABLE_PIN)
    ELSE BitClear(out, SPINDLE_ENABLE_PIN)

spindleOn(out) ==
    IF settings.spindle_invert_on
    THEN BitClear(out, SPINDLE_ENABLE_PIN)
    ELSE BitOr(out, SPINDLE_ENABLE_PIN)

spindleSetSpeed(pwm_value) ==
    IF pwm_value = hal_spindle_pwm_off
    THEN /\ pwmEnabled' = FALSE
         /\ SPINDLE_ENABLE_OUT' =
               IF settings.spindle_disable_with_zero_speed
               THEN spindleOff(SPINDLE_ENABLE_OUT)
               ELSE SPINDLE_ENABLE_OUT
         /\ PWM_TIMER_CCTL1' = 0
         /\ UNCHANGED PWM_TIMER_CCR1
    ELSE /\ SPINDLE_ENABLE_OUT' =
               IF ~pwmEnabled THEN spindleOn(SPINDLE_ENABLE_OUT) ELSE SPINDLE_ENABLE_OUT
         /\ pwmEnabled' = TRUE
         /\ PWM_TIMER_CCR1' = pwm_value
         /\ PWM_TIMER_CCTL1' = OUTMOD_2

\* hal.spindle_set_speed(pwm_value), called by the core
SpindleSetSpeed(P) ==
    /\ ps_pc = "idle"
    /\ \E v \in P :
        /\ spindleSetSpeed(v)
        /\ last' = OpArg("setSpeed", v, 0)
    /\ UNCHANGED <<settings, vars_sys, vars_inputs, vars_rate, vars_pulse, current_pwm, current_pwm_delayed,
                   hal_spindle_pwm_off>>

\* rpm * (0.010f * speed_ovr), in hundredths of an rpm
ScaledRpm(rpm, speed_ovr) == rpm * speed_ovr

\* floor(r / 100 * num / den) for r in hundredths, without leaving 32 bits
ScaleFloor(r, num, den) == ((r \div 100) * num + ((r % 100) * num) \div 100) \div den

\* a spindleComputePWMValue without the S0 case: zero rpm gets the minimum duty
spindleComputePWMValue_NoOff(rpm, speed_ovr) ==
    LET r == ScaledRpm(rpm, speed_ovr)
        lo == SpindleMinValue(settings)
        hi == SpindleMaxValue(settings)
    IN  IF settings.rpm_min >= settings.rpm_max \/ r >= settings.rpm_max * 100
        THEN [pwm_value |-> (hi - 1) % Pow2(16), spindle_rpm |-> settings.rpm_max * 100]
        ELSE IF r <= settings.rpm_min * 100
        THEN [pwm_value |-> lo, spindle_rpm |-> settings.rpm_min * 100]
        ELSE LET v == ScaleFloor(r - settings.rpm_min * 100, hi - lo,
                                 settings.rpm_max - settings.rpm_min) + lo
             IN  [pwm_value |-> IF v >= hi THEN hi - 1 ELSE v, spindle_rpm |-> r]

\* a spindleComputePWMValue that tests for zero rpm before the range test
spindleComputePWMValue_ZeroFirst(rpm, speed_ovr) ==
    LET r == ScaledRpm(rpm, speed_ovr)
        lo == SpindleMinValue(settings)
        hi == SpindleMaxValue(settings)
    IN  IF r = 0
        THEN [pwm_value |-> SpindleOffValue(settings), spindle_rpm |-> 0]
        ELSE IF settings.rpm_min >= settings.rpm_max \/ r >= settings.rpm_max * 100
        THEN [pwm_value |-> (hi - 1) % Pow2(16), spindle_rpm |-> settings.rpm_max * 100]
        ELSE IF r <= settings.rpm_min * 100
        THEN [pwm_value |-> lo, spindle_rpm |-> settings.rpm_min * 100]
        ELSE LET v == ScaleFloor(r - settings.rpm_min * 100, hi - lo,
                                 settings.rpm_max - settings.rpm_min) + lo
             IN  [pwm_value |-> IF v >= hi THEN hi - 1 ELSE v, spindle_rpm |-> r]

\* spindleComputePWMValue(rpm, speed_ovr): the value returned and the value
\* stored in sys.spindle_rpm; the linear branch multiplies by
\* pwm_gradient = (max_value - min_value) / (rpm_max - rpm_min)
spindleComputePWMValue(rpm, speed_ovr) ==
    LET r == ScaledRpm(rpm, speed_ovr)
        lo == SpindleMinValue(settings)
        hi == SpindleMaxValue(settings)
    IN  IF settings.rpm_min >= settings.rpm_max \/ r >= settings.rpm_max * 100
        THEN [pwm_value |-> (hi - 1) % Pow2(16), spindle_rpm |-> settings.rpm_max * 100]
        ELSE IF r <= settings.rpm_min * 100
        THEN IF r = 0
             THEN [pwm_value |-> SpindleOffValue(settings), spindle_rpm |-> 0]
             ELSE [pwm_value |-> lo, spindle_rpm |-> settings.rpm_min * 100]
        ELSE LET v == ScaleFloor(r - settings.rpm_min * 100, hi - lo,
                                 settings.rpm_max - settings.rpm_min) + lo
             IN  [pwm_value |-> IF v >= hi THEN hi - 1 ELSE v, spindle_rpm |-> r]

\* hal.spindle_get_pwm(rpm, speed_ovr), called by the core
SpindleComputePWM(R, O) ==
    /\ \E rpm \in R, speed_ovr \in O :
        LET res == spindleComputePWMValue(rpm, speed_ovr)
        IN  /\ sys_spindle_rpm' = res.spindle_rpm
            /\ last' = OpArg("computePWM", ScaledRpm(rpm, speed_ovr), res.pwm_value)
    /\ UNCHANGED <<settings, vars_rate, vars_pulse, vars_spindle, vars_inputs,
                   SPINDLE_DIRECTION_OUT, vars_conc>>

\* a spindleDir that holds the direction pin while the spindle is running
spindleDir_HoldWhileRunning(ccw, out) ==
    IF PWM_TIMER_CCTL1 # 0 /\ SPINDLE_ENABLE_OUT = spindleOn(SPINDLE_ENABLE_OUT)
    THEN out
    ELSE IF ccw # settings.spindle_invert_ccw
         THEN BitOr(out, SPINDLE_DIRECTION_PIN)
         ELSE BitClear(out, SPINDLE_DIRECTION_PIN)

\* SPINDLE_DIRECTION_OUT after spindleDir(ccw); hal.driver_cap.spindle_dir is On
spindleDir(ccw, out) ==
    IF ccw # settings.spindle_invert_ccw
    THEN BitOr(out, SPINDLE_DIRECTION_PIN)
    ELSE BitClear(out, SPINDLE_DIRECTION_PIN)

\* hal.spindle_set_state = spindleSetStateVariable(state, rpm, speed_ovr): off
\* is spindleSetSpeed(hal.spindle_pwm_off) followed by spindleOff(); on is
\* spindleDir(state.ccw) followed by spindleSetSpeed(spindleComputePWMValue(..))
spindleSetStateVariable(state_on, state_ccw, rpm, speed_ovr) ==
    IF ~state_on \/ rpm = 0
    THEN /\ pwmEnabled' = FALSE
         /\ PWM_TIMER_CCTL1' = 0
         /\ SPINDLE_ENABLE_OUT' = spindleOff(SPINDLE_ENABLE_OUT)
         /\ UNCHANGED <<PWM_TIMER_CCR1, SPINDLE_DIRECTION_OUT, sys_spindle_rpm>>
    ELSE /\ SPINDLE_DIRECTION_OUT' = spindleDir(state_ccw, SPINDLE_DIRECTION_OUT)
         /\ sys_spindle_rpm' = spindleComputePWMValue(rpm, speed_ovr).spindle_rpm
         /\ spindleSetSpeed(spindleComputePWMValue(rpm, speed_ovr).pwm_value)

\* spindleGetState: on is the cached flag or the enable pin level, ccw is the
\* direction pin level, and the inversion mask is applied to both afterwards
spindleGetState ==
    LET on == pwmEnabled \/ BitAnd(SPINDLE_ENABLE_OUT, SPINDLE_ENABLE_PIN) # 0
        ccw == BitAnd(SPINDLE_DIRECTION_OUT, SPINDLE_DIRECTION_PIN) # 0
    IN  [on |-> (on # settings.spindle_invert_on),
         ccw |-> (ccw # settings.spindle_invert_ccw)]

SpindleSetState(R, O) ==
    /\ ps_pc = "idle"
    /\ \E state_on \in BOOLEAN, state_ccw \in BOOLEAN, rpm \in R, speed_ovr \in O :
        /\ spindleSetStateVariable(state_on, state_ccw, rpm, speed_ovr)
        /\ last' = OpArg("setState", [on |-> state_on, ccw |-> state_ccw, rpm |-> rpm], 0)
    /\ UNCHANGED <<settings, vars_inputs, vars_rate, vars_pulse, current_pwm,
                   current_pwm_delayed, hal_spindle_pwm_off, vars_conc>>

(***************************************************************************)
(* Step pulse generation                                                   *)
(***************************************************************************)
\* the step pin field for logical step bits under inversion mask inv
StepField(bits, inv) == ShiftLeft(BitXor(bits, inv), 1)

\* STEP_PORT_OUT after stepperSetStepOutputs(step_outbits)
stepperSetStepOutputs(step_outbits) ==
    BitOr(BitClear(STEP_PORT_OUT, HWSTEP_MASK),
          ShiftLeft(BitXor(step_outbits, step_port_invert), 1))

\* a pulse start that leaves the direction pins as they were
stepperSetDirOutputs_Stale(dir_outbits) == DIRECTION_PORT_OUT

\* DIRECTION_PORT_OUT after stepperSetDirOutputs(dir_outbits)
stepperSetDirOutputs(dir_outbits) ==
    BitOr(BitClear(DIRECTION_PORT_OUT, HWDIRECTION_MASK),
          BitXor(dir_outbits, dir_port_invert))

\* stepperPulseStart, first statements: spindle speed, then direction outputs
stepperPulseStart_dir(d) ==
    /\ stepper' = d
    /\ IF d.spindle_pwm # current_pwm
       THEN /\ spindleSetSpeed(d.spindle_pwm)
            /\ current_pwm' = d.spindle_pwm
       ELSE UNCHANGED <<vars_pwm, current_pwm>>
    /\ DIRECTION_PORT_OUT' = stepperSetDirOutputs(d.dir_outbits)
    /\ ps_pc' = "dir"
    /\ last' = Op("ps_dir")
    /\ UNCHANGED <<settings, vars_sys, vars_inputs, vars_rate, PULSE_TIMER_CTL, PULSE_TIMER_CCTL1,
                   PULSE_TIMER_CCR0, PULSE_TIMER_CCR1, pulse_cnt, step_pulse_ticks,
                   STEP_PORT_OUT, step_port_invert, dir_port_invert,
                   next_step_outbits, hal_stepper_pulse_start, pulse_started,
                   current_pwm_delayed, hal_spindle_pwm_off>>

\* stepperPulseStart, next statement: step outputs
stepperPulseStart_step ==
    /\ ps_pc = "dir"
    /\ STEP_PORT_OUT' = stepperSetStepOutputs(stepper.step_outbits)
    /\ ps_pc' = "step"
    /\ last' = Op("ps_step")
    /\ UNCHANGED <<settings, vars_sys, vars_inputs, vars_rate, PULSE_TIMER_CTL, PULSE_TIMER_CCTL1,
                   PULSE_TIMER_CCR0, PULSE_TIMER_CCR1, pulse_cnt, step_pulse_ticks,
                   DIRECTION_PORT_OUT, step_port_invert, dir_port_invert,
                   next_step_outbits, hal_stepper_pulse_start, stepper,
                   pulse_started, vars_spindle>>

\* stepperPulseStart, last statement: the pulse timer is cleared and started
stepperPulseStart_arm ==
    /\ ps_pc = "step"
    /\ PULSE_TIMER_CTL' = TimerCtlWrite(BitOr(PULSE_TIMER_CTL, TACLR + MC0))
    /\ pulse_cnt' = "below"
    /\ pulse_started' = TRUE
    /\ ps_pc' = "idle"
    /\ last' = Op("ps_arm")
    /\ UNCHANGED <<settings, vars_sys, vars_inputs, vars_rate, PULSE_TIMER_CCTL1, PULSE_TIMER_CCR0,
                   PULSE_TIMER_CCR1, step_pulse_ticks, STEP_PORT_OUT,
                   DIRECTION_PORT_OUT, step_port_invert, dir_port_invert,
                   next_step_outbits, hal_stepper_pulse_start, stepper, vars_spindle>>

\* stepperPulseStartDelayed, first statements: spindle speed, then direction outputs
stepperPulseStartDelayed_dir(d) ==
    /\ stepper' = d
    /\ IF d.spindle_pwm # current_pwm_delayed
       THEN /\ spindleSetSpeed(d.spindle_pwm)
            /\ current_pwm_delayed' = d.spindle_pwm
       ELSE UNCHANGED <<vars_pwm, current_pwm_delayed>>
    /\ DIRECTION_PORT_OUT' = stepperSetDirOutputs(d.dir_outbits)
    /\ ps_pc' = "d_dir"
    /\ last' = Op("psd_dir")
    /\ UNCHANGED <<settings, vars_sys, vars_inputs, vars_rate, PULSE_TIMER_CTL, PULSE_TIMER_CCTL1,
                   PULSE_TIMER_CCR0, PULSE_TIMER_CCR1, pulse_cnt, step_pulse_ticks,
                   STEP_PORT_OUT, step_port_invert, dir_port_invert,
                   next_step_outbits, hal_stepper_pulse_start, pulse_started,
                   current_pwm, hal_spindle_pwm_off>>

\* stepperPulseStartDelayed, next statement: the step bits are stored
stepperPulseStartDelayed_store ==
    /\ ps_pc = "d_dir"
    /\ next_step_outbits' = stepper.step_outbits
    /\ ps_pc' = "d_store"
    /\ last' = Op("psd_store")
    /\ UNCHANGED <<settings, vars_sys, vars_inputs, vars_rate, PULSE_TIMER_CTL, PULSE_TIMER_CCTL1,
                   PULSE_TIMER_CCR0, PULSE_TIMER_CCR1, pulse_cnt, step_pulse_ticks,
                   STEP_PORT_OUT, DIRECTION_PORT_OUT, step_port_invert,
                   dir_port_invert, hal_stepper_pulse_start, stepper,
                   pulse_started, vars_spindle>>

\* stepperPulseStartDelayed, last statement: the pulse timer is cleared and started
stepperPulseStartDelayed_arm ==
    /\ ps_pc = "d_store"
    /\ PULSE_TIMER_CTL' = TimerCtlWrite(BitOr(PULSE_TIMER_CTL, TACLR + MC0))
    /\ pulse_cnt' = "below"
    /\ pulse_started' = TRUE
    /\ ps_pc' = "idle"
    /\ last' = Op("psd_arm")
    /\ UNCHANGED <<settings, vars_sys, vars_inputs, vars_rate, PULSE_TIMER_CCTL1, PULSE_TIMER_CCR0,
                   PULSE_TIMER_CCR1, step_pulse_ticks, STEP_PORT_OUT,
                   DIRECTION_PORT_OUT, step_port_invert, dir_port_invert,
                   next_step_outbits, hal_stepper_pulse_start, stepper, vars_spindle>>

\* hal.stepper_pulse_start(stepper), called by the planner for the next step; the
\* previous pulse has ended (the pulse reset interrupt "should always trigger
\* before the next general stepper driver interrupt")
PulseStart(D) ==
    /\ ps_pc = "idle"
    /\ ~TimerRunning(PULSE_TIMER_CTL)
    /\ \E d \in D :
        IF hal_stepper_pulse_start = "delayed"
        THEN stepperPulseStartDelayed_dir(d)
        ELSE stepperPulseStart_dir(d)

\* the counter of the running pulse timer has the enabled delay compare ahead of it
DelayCompareAhead ==
    /\ BitAnd(PULSE_TIMER_CCTL1, CCIE) # 0
    /\ pulse_cnt = "below"
    /\ PULSE_TIMER_CCR1 < PULSE_TIMER_CCR0

\* pulse timer CCR0 compare interrupt: end of the step pulse
stepper_pulse_isr ==
    /\ TimerRunning(PULSE_TIMER_CTL)
    /\ ~DelayCompareAhead
    /\ STEP_PORT_OUT' = stepperSetStepOutputs(step_port_invert)
    /\ PULSE_TIMER_CTL' = TimerCtlWrite(BitClear(PULSE_TIMER_CTL, MC0 + MC1))
    /\ last' = Op("isr_pulse")
    /\ UNCHANGED <<settings, vars_sys, vars_inputs, vars_rate, PULSE_TIMER_CCTL1, PULSE_TIMER_CCR0,
                   PULSE_TIMER_CCR1, pulse_cnt, step_pulse_ticks, DIRECTION_PORT_OUT,
                   step_port_invert, dir_port_invert, next_step_outbits,
                   hal_stepper_pulse_start, ps_pc, stepper, pulse_started,
                   vars_spindle>>

\* pulse timer CCR1 compare interrupt (PULSE_TIMER_IV == TA0IV_TACCR1): end of the
\* step delay; the counter PULSE_TIMER_R stands at the delay compare value
stepper_pulse_isr_delayed ==
    /\ TimerRunning(PULSE_TIMER_CTL)
    /\ DelayCompareAhead
    /\ STEP_PORT_OUT' = stepperSetStepOutputs(next_step_outbits)
    /\ PULSE_TIMER_CCR0' = (PULSE_TIMER_CCR1 + step_pulse_ticks) % Pow2(16)
    /\ pulse_cnt' = "past"
    /\ last' = Op("isr_delay")
    /\ UNCHANGED <<settings, vars_sys, vars_inputs, vars_rate, PULSE_TIMER_CTL, PULSE_TIMER_CCTL1,
                   PULSE_TIMER_CCR1, step_pulse_ticks, DIRECTION_PORT_OUT,
                   step_port_invert, dir_port_invert, next_step_outbits,
                   hal_stepper_pulse_start, ps_pc, stepper, pulse_started,
                   vars_spindle>>

(***************************************************************************)
(* Control inputs                                                          *)
(***************************************************************************)
\* a systemGetState that reports every pin that is high
systemGetState_Union(port_in) ==
    LET flags == BitAnd(port_in, HWCONTROL_MASK)
    IN  BitXor((IF BitAnd(flags, RESET_PIN) # 0 THEN SIGNAL_RESET ELSE 0)
               + (IF BitAnd(flags, SAFETY_DOOR_PIN) # 0 THEN SIGNAL_SAFETY_DOOR ELSE 0)
               + (IF BitAnd(flags, FEED_HOLD_PIN) # 0 THEN SIGNAL_FEED_HOLD ELSE 0)
               + (IF BitAnd(flags, CYCLE_START_PIN) # 0 THEN SIGNAL_CYCLE_START ELSE 0),
               settings.control_invert)

\* the value systemGetState returns for raw port value port_in
systemGetState(port_in) ==
    LET flags == BitAnd(port_in, HWCONTROL_MASK)
        signals ==
            IF BitAnd(flags, RESET_PIN) # 0 THEN SIGNAL_RESET
            ELSE IF BitAnd(flags, SAFETY_DOOR_PIN) # 0 THEN SIGNAL_SAFETY_DOOR
            ELSE IF BitAnd(flags, FEED_HOLD_PIN) # 0 THEN SIGNAL_FEED_HOLD
            ELSE IF BitAnd(flags, CYCLE_START_PIN) # 0 THEN SIGNAL_CYCLE_START
            ELSE 0
    IN  IF settings.control_invert # 0
        THEN BitXor(signals, settings.control_invert)
        ELSE signals

\* hal.system_control_get_state(), polled by the core
SystemGetState ==
    /\ control_state' = systemGetState(CONTROL_PORT_IN)
    /\ last' = OpArg("getState", CONTROL_PORT_IN, 0)
    /\ UNCHANGED <<not_inputs, vars_limit, CONTROL_PORT_IN>>

\* the control pins take the levels p
ControlPinChange(P) ==
    /\ \E p \in P :
        /\ p # CONTROL_PORT_IN
        /\ CONTROL_PORT_IN' = p
    /\ last' = Op("controlPins")
    /\ UNCHANGED <<not_inputs, vars_limit, control_state>>

(***************************************************************************)
(* Limit inputs and software debounce                                      *)
(***************************************************************************)
\* 1 when pin is high in flags
PinHigh(flags, pin) == IF BitAnd(flags, pin) = pin THEN 1 ELSE 0

\* a limitsGetState that leaves the inversion mask out
limitsGetState_NoInvert(port_in) ==
    PinHigh(port_in, X_LIMIT_PIN) + 2 * PinHigh(port_in, Y_LIMIT_PIN)
        + 4 * PinHigh(port_in, Z_LIMIT_PIN)

\* the value limitsGetState returns for raw port value port_in
limitsGetState(port_in) ==
    LET signals == PinHigh(port_in, X_LIMIT_PIN) + 2 * PinHigh(port_in, Y_LIMIT_PIN)
                       + 4 * PinHigh(port_in, Z_LIMIT_PIN)
    IN  IF settings.limit_invert # 0
        THEN BitXor(signals, settings.limit_invert)
        ELSE signals

\* hal.limits_get_state(), polled by the core; the returned value is recorded
LimitsGetState ==
    /\ last' = OpArg("limitsGet", LIMIT_PORT_IN, limitsGetState(LIMIT_PORT_IN))
    /\ UNCHANGED <<not_inputs, vars_inputs>>

\* the edge flags the port latches when the limit pins go from old to new: a
\* low-to-high change where the IES bit is clear, high-to-low where it is set
EdgeFlags(old, new, ies) ==
    LET rising == BitAnd(BitClear(new, old), HWLIMIT_MASK)
        falling == BitAnd(BitClear(old, new), HWLIMIT_MASK)
    IN  BitOr(BitClear(rising, ies), BitAnd(falling, ies))

\* the limit pins take the levels p (a switch closes, opens or bounces)
LimitPinChange(P, MaxChanges) ==
    /\ ~lim_settled
    /\ lim_edges < MaxChanges
    /\ \E p \in P :
        /\ p # LIMIT_PORT_IN
        /\ LIMIT_PORT_IN' = p
        /\ LIMIT_PORT_IFG' =
              BitOr(LIMIT_PORT_IFG, EdgeFlags(LIMIT_PORT_IN, p, LIMIT_PORT_IES))
    /\ lim_edges' = lim_edges + 1
    /\ last' = Op("limitPins")
    /\ UNCHANGED <<not_inputs, vars_control, LIMIT_PORT_IE, LIMIT_PORT_IES, WDTIE,
                   debounce_count, software_debounce, lim_cbs, lim_settled, lim_ticks>>

\* the limit pins have reached their final levels
LimitSettle ==
    /\ ~lim_settled
    /\ lim_edges >= 1
    /\ lim_settled' = TRUE
    /\ last' = Op("limitSettle")
    /\ UNCHANGED <<not_inputs, vars_control, LIMIT_PORT_IN, LIMIT_PORT_IFG,
                   LIMIT_PORT_IE, LIMIT_PORT_IES, WDTIE, debounce_count,
                   software_debounce, lim_cbs, lim_edges, lim_ticks>>

limitsEnable(on) ==
    /\ LIMIT_PORT_IE' =
          IF on /\ settings.hard_limit_enable
          THEN BitOr(LIMIT_PORT_IE, HWLIMIT_MASK)
          ELSE BitClear(LIMIT_PORT_IE, HWLIMIT_MASK)
    /\ last' = Op(IF on THEN "limitsOn" ELSE "limitsOff")
    /\ UNCHANGED <<not_inputs, vars_control, LIMIT_PORT_IN, LIMIT_PORT_IFG,
                   LIMIT_PORT_IES, WDTIE, debounce_count, software_debounce,
                   lim_cbs, lim_edges, lim_settled, lim_ticks>>

\* hal.limits_enable(on), called by the core
LimitsEnable(Ons) == \E on \in Ons : limitsEnable(on)

\* limit port interrupt: requested while an enabled edge flag is latched
limit_isr ==
    /\ BitAnd(BitAnd(LIMIT_PORT_IFG, LIMIT_PORT_IE), HWLIMIT_MASK) # 0
    /\ LET iflags == BitAnd(LIMIT_PORT_IFG, HWLIMIT_MASK)
       IN  /\ LIMIT_PORT_IFG' = BitClear(LIMIT_PORT_IFG, iflags)
           /\ IF software_debounce
              THEN /\ WDTIE' = TRUE
                   /\ debounce_count' = 3
                   /\ lim_ticks' = IF WDTIE THEN lim_ticks ELSE 0
                   /\ UNCHANGED lim_cbs
              ELSE /\ lim_cbs' = Append(lim_cbs, limitsGetState(LIMIT_PORT_IN))
                   /\ UNCHANGED <<WDTIE, debounce_count, lim_ticks>>
    /\ last' = Op("isr_limit")
    /\ UNCHANGED <<not_inputs, vars_control, LIMIT_PORT_IN, LIMIT_PORT_IE,
                   LIMIT_PORT_IES, software_debounce, lim_edges, lim_settled>>

\* the tick handler without SFRIE1 &= ~WDTIE at expiry
software_debounce_isr_KeepTicking ==
    /\ WDTIE
    /\ debounce_count' = (debounce_count - 1) % Pow2(16)
    /\ lim_ticks' = lim_ticks + 1
    /\ IF debounce_count' = 0
       THEN /\ WDTIE' = WDTIE
            /\ lim_cbs' =
                  IF limitsGetState(LIMIT_PORT_IN) # 0
                  THEN Append(lim_cbs, limitsGetState(LIMIT_PORT_IN))
                  ELSE lim_cbs
            /\ lim_settled' = (lim_settled \/ lim_edges >= 1)
            /\ last' = Op("debounced")
       ELSE /\ last' = Op("debounceTick")
            /\ UNCHANGED <<WDTIE, lim_cbs, lim_settled>>
    /\ UNCHANGED <<not_inputs, vars_control, LIMIT_PORT_IN, LIMIT_PORT_IFG,
                   LIMIT_PORT_IE, LIMIT_PORT_IES, software_debounce, lim_edges>>

\* watchdog interval timer interrupt: one debounce tick; when the window
\* expires the pins are taken as they are (no later change is considered)
software_debounce_isr ==
    /\ WDTIE
    /\ debounce_count' = (debounce_count - 1) % Pow2(16)
    /\ lim_ticks' = lim_ticks + 1
    /\ IF debounce_count' = 0
       THEN /\ WDTIE' = FALSE
            /\ lim_cbs' =
                  IF limitsGetState(LIMIT_PORT_IN) # 0
                  THEN Append(lim_cbs, limitsGetState(LIMIT_PORT_IN))
                  ELSE lim_cbs
            /\ lim_settled' = (lim_settled \/ lim_edges >= 1)
            /\ last' = Op("debounced")
       ELSE /\ last' = Op("debounceTick")
            /\ UNCHANGED <<WDTIE, lim_cbs, lim_settled>>
    /\ UNCHANGED <<not_inputs, vars_control, LIMIT_PORT_IN, LIMIT_PORT_IFG,
                   LIMIT_PORT_IE, LIMIT_PORT_IES, software_debounce, lim_edges>>

(***************************************************************************)
(* driver_setup: the state the driver starts from                          *)
(***************************************************************************)
\* the raw limit pin levels that read as "no limit triggered" under s
IdleLimitPins(s) ==
    AxisBit(s.limit_invert, 0) * X_LIMIT_PIN + AxisBit(s.limit_invert, 1) * Y_LIMIT_PIN
        + AxisBit(s.limit_invert, 2) * Z_LIMIT_PIN

\* control and limit inputs after driver_init and driver_setup(&settings)
InitInputs(s) ==
    /\ CONTROL_PORT_IN = 0
    /\ control_state = 0
    /\ LIMIT_PORT_IN = IdleLimitPins(s)
    /\ LIMIT_PORT_IFG = 0
    /\ LIMIT_PORT_IE = 0
    /\ LIMIT_PORT_IES = LimitIES(s, 0)
    /\ WDTIE = FALSE
    /\ debounce_count = 0
    /\ software_debounce = TRUE
    /\ lim_cbs = <<>>
    /\ lim_edges = 0
    /\ lim_settled = FALSE
    /\ lim_ticks = 0

\* pulse timer, outputs and spindle after driver_setup(&settings) with settings s
InitPulse(s) ==
    /\ settings = s
    /\ PULSE_TIMER_CTL = TimerCtlWrite(BitOr(0, TACLR + TASSEL1))
    /\ pulse_cnt = "below"
    /\ STEP_PORT_OUT = 0
    /\ step_port_invert = s.step_invert
    /\ dir_port_invert = s.dir_invert
    /\ DIRECTION_PORT_OUT = BitXor(0, s.dir_invert)
    /\ next_step_outbits = 0
    /\ step_pulse_ticks = StepPulseTicks(s)
    /\ hal_stepper_pulse_start =
          IF s.pulse_delay_microseconds # 0 THEN "delayed" ELSE "immediate"
    /\ PULSE_TIMER_CCR1 = s.pulse_delay_microseconds * 5
    /\ PULSE_TIMER_CCR0 =
          (StepPulseTicks(s) + s.pulse_delay_microseconds * 5) % Pow2(16)
    /\ PULSE_TIMER_CCTL1 = IF s.pulse_delay_microseconds # 0 THEN CCIE ELSE 0
    /\ ps_pc = "idle"
    /\ stepper = [step_outbits |-> 0, dir_outbits |-> 0, spindle_pwm |-> 0]
    /\ pulse_started = FALSE

InitSpindle(s) ==
    /\ current_pwm = 0
    /\ current_pwm_delayed = 0
    /\ pwmEnabled = FALSE
    /\ PWM_TIMER_CCR1 = 0
    /\ PWM_TIMER_CCTL1 = 0
    /\ SPINDLE_ENABLE_OUT = IF s.spindle_invert_on THEN SPINDLE_ENABLE_PIN ELSE 0
    /\ hal_spindle_pwm_off = SpindleOffValue(s)

\* the system state the driver reports into and the spindle direction output
InitSys ==
    /\ sys_spindle_rpm = 0
    /\ SPINDLE_DIRECTION_OUT = 0
    /\ sc_pc = "idle"
    /\ InitDelay
    /\ InitAtomic
    /\ serialInit

\* driver_init and driver_setup(&settings) for settings s and an AMASS level
driver_setup(s, amass_levels) ==
    /\ InitRate(amass_levels)
    /\ InitPulse(s)
    /\ InitSpindle(s)
    /\ InitInputs(s)
    /\ InitSys
    /\ last = Op("init")

(***************************************************************************)
(* Specifications                                                          *)
(***************************************************************************)
\* the rate timer: both setters, wake-up, go-idle and the rate interrupt
InitRateSpec == driver_setup(DefaultSettings, {0, 3})

NextRate ==
    \/ CyclesPerTick
    \/ stepperWakeUp
    \/ stepperWakeUpReturn
    \/ stepperGoIdle
    \/ stepper_driver_isr
    \/ stepper_driver_isr_return

SpecRate == InitRateSpec /\ [][NextRate]_vars

\* step pulses: both pulse-start variants, the two pulse timer interrupts,
\* settings changes of the inversion masks and the step delay, and go-idle
StepInputs == {0, 1, 6}
DirInputs == {0, 6}
InvertMasks == {0, 5}
DelayMicroseconds == {0, 5}

PulseSettings ==
    { [DefaultSettings EXCEPT !.step_invert = m, !.dir_invert = n,
                              !.pulse_delay_microseconds = dl] :
        m \in InvertMasks, n \in InvertMasks, dl \in DelayMicroseconds }

PulseDescriptors ==
    { [step_outbits |-> st, dir_outbits |-> dr, spindle_pwm |-> 0] :
        st \in StepInputs, dr \in DirInputs }

InitPulseSpec == \E s \in PulseSettings : driver_setup(s, {3})

NextPulse ==
    \/ PulseStart(PulseDescriptors)
    \/ stepperPulseStart_step
    \/ stepperPulseStart_arm
    \/ stepperPulseStartDelayed_store
    \/ stepperPulseStartDelayed_arm
    \/ stepper_pulse_isr
    \/ stepper_pulse_isr_delayed
    \/ SettingsChange(PulseSettings)
    \/ stepperGoIdle

SpecPulse == InitPulseSpec /\ [][NextPulse]_vars

\* settings changes by the main flow while steps are being generated: the rate
\* interrupt's pulse start and the pulse interrupts run whenever they are due
NextSettingsRace ==
    \/ SettingsChange_first(PulseSettings)
    \/ SettingsChange_rest
    \/ PulseStart(PulseDescriptors)
    \/ stepperPulseStart_step
    \/ stepperPulseStart_arm
    \/ stepperPulseStartDelayed_store
    \/ stepperPulseStartDelayed_arm
    \/ stepper_pulse_isr
    \/ stepper_pulse_isr_delayed

SpecSettingsRace == InitPulseSpec /\ [][NextSettingsRace]_vars

\* delays requested by the main flow and completed by the delay timer
MaxDelays == 3
DelayMs == {0, 1, 2}

NextDelay ==
    \/ DriverDelay(DelayMs, DelayCallbacks \cup {NullCallback}, MaxDelays)
    \/ driver_delay_ms_return
    \/ systick_isr

SpecDelay == InitRateSpec /\ [][NextDelay]_vars

\* the atomic helpers called by the main flow against a handler on the same word
AtomicHelpers == {"bitsSet", "bitsClear", "valueSet"}
AtomicWords == 0..3

NextAtomic ==
    \/ AtomicEnter(AtomicHelpers, AtomicWords)
    \/ AtomicRead
    \/ AtomicWrite
    \/ AtomicReturn
    \/ AtomicWordIsr(AtomicWords \ {0})

SpecAtomic == InitRateSpec /\ [][NextAtomic]_vars

\* serial output: serialPutC calls of the main flow against the transmit interrupt
MaxPuts == 4
TxChars == {"a", "b"}

NextSerialTx ==
    \/ serialPutC_enter(TxChars, MaxPuts)
    \/ serialPutC_wait
    \/ serialPutC_store
    \/ serialPutC_head
    \/ serialPutC_enable
    \/ USART_IRQHandler_tx

SpecSerialTx == InitRateSpec /\ [][NextSerialTx]_vars

\* serial input: arriving bytes against serialGetC calls of the main flow
MaxRx == 5
RxBytes == {"a", "b", "rt", CMD_TOOL_ACK}

NextSerialRx ==
    \/ USART_IRQHandler_rx(RxBytes, MaxRx)
    \/ serialGetC_enter
    \/ serialGetC_compare
    \/ serialGetC_take

SpecSerialRx == InitRateSpec /\ [][NextSerialRx]_vars

\* spindle PWM: pulse starts carrying a duty, direct set-speed calls and
\* settings changes
MaxPwm == 2
PwmInputs == 0 .. MaxPwm

SetStateRpms == {0, 10, 20}

SpindleSettings ==
    { [DefaultSettings EXCEPT !.pulse_delay_microseconds = dl,
                              !.spindle_disable_with_zero_speed = z] :
        dl \in DelayMicroseconds, z \in BOOLEAN }

SpindleDescriptors ==
    { [step_outbits |-> 1, dir_outbits |-> 0, spindle_pwm |-> v] : v \in PwmInputs }

InitSpindleSpec == \E s \in SpindleSettings : driver_setup(s, {3})

NextSpindle ==
    \/ PulseStart(SpindleDescriptors)
    \/ stepperPulseStart_step
    \/ stepperPulseStart_arm
    \/ stepperPulseStartDelayed_store
    \/ stepperPulseStartDelayed_arm
    \/ stepper_pulse_isr
    \/ stepper_pulse_isr_delayed
    \/ SpindleSetSpeed(PwmInputs)
    \/ SpindleSetState(SetStateRpms, {100})
    \/ SettingsChange(SpindleSettings)

SpecSpindle == InitSpindleSpec /\ [][NextSpindle]_vars

\* control inputs: every raw pin pattern under every control inversion mask
ControlMasks == 0 .. 15
ControlPatterns == {16 * k : k \in 0 .. 15}
ControlSettings == { [DefaultSettings EXCEPT !.control_invert = m] : m \in ControlMasks }

InitControlSpec == \E s \in ControlSettings : driver_setup(s, {3})

NextControl ==
    \/ SystemGetState
    \/ ControlPinChange(ControlPatterns)

SpecControl == InitControlSpec /\ [][NextControl]_vars

\* limit inputs: bouncing x and y limit switches, the limit port interrupt and
\* the debounce tick
MaxEdges == 3
LimitPatterns == {0, X_LIMIT_PIN, Y_LIMIT_PIN, X_LIMIT_PIN + Y_LIMIT_PIN}
LimitSettings ==
    { [DefaultSettings EXCEPT !.limit_invert = m, !.limit_disable_pullup = u] :
        m \in {0, 1}, u \in {0, 1} }

InitLimitSpec == \E s \in LimitSettings : driver_setup(s, {3})

NextLimit ==
    \/ LimitsEnable({TRUE})
    \/ LimitPinChange(LimitPatterns, MaxEdges)
    \/ LimitSettle
    \/ limit_isr
    \/ software_debounce_isr

SpecLimit == InitLimitSpec /\ [][NextLimit]_vars

\* the same with the core switching the limit interrupts off and on
NextLimitDisable ==
    \/ LimitsEnable(BOOLEAN)
    \/ LimitPinChange(LimitPatterns, MaxEdges)
    \/ LimitSettle
    \/ limit_isr
    \/ software_debounce_isr

SpecLimitDisable == InitLimitSpec /\ [][NextLimitDisable]_vars

\* spindle state: set-state and set-speed calls under every spindle inversion
\* mask, with and without 'disable with zero speed'
SpindleStateSettings ==
    { [DefaultSettings EXCEPT !.spindle_invert_on = i, !.spindle_invert_ccw = c,
                              !.spindle_disable_with_zero_speed = z] :
        i \in BOOLEAN, c \in BOOLEAN, z \in BOOLEAN }

InitSpindleStateSpec == \E s \in SpindleStateSettings : driver_setup(s, {3})

NextSpindleState ==
    \/ SpindleSetSpeed(PwmInputs)
    \/ SpindleSetState(SetStateRpms, {100})

SpecSpindleState == InitSpindleStateSpec /\ [][NextSpindleState]_vars

\* the same with settings changes in between
NextSpindleConfig ==
    \/ SpindleSetSpeed(PwmInputs)
    \/ SpindleSetState(SetStateRpms, {100})
    \/ SettingsChange(SpindleStateSettings)

SpecSpindleConfig == InitSpindleStateSpec /\ [][NextSpindleConfig]_vars

\* spindle speed to PWM conversion under valid and misconfigured settings
RpmInputs == {0, 1, 500, 1000, 1001, 12500, 23999, 24000, 30000}
OverrideInputs == {10, 100, 200}
RpmRanges == { <<1000, 24000>>, <<0, 1000>>, <<1000, 1000>>, <<2000, 1000>> }
PwmPercents == { <<0, 5, 100>>, <<0, 0, 100>>, <<10, 5, 100>> }
PwmSettings ==
    { [DefaultSettings EXCEPT !.spindle_pwm_freq = 3125,
                              !.rpm_min = rr[1], !.rpm_max = rr[2],
                              !.spindle_pwm_off_value = pp[1],
                              !.spindle_pwm_min_value = pp[2],
                              !.spindle_pwm_max_value = pp[3]] :
        rr \in RpmRanges, pp \in PwmPercents }

InitPwmSpec == \E s \in PwmSettings : driver_setup(s, {3})

NextPwm == SpindleComputePWM(RpmInputs, OverrideInputs)

SpecPwm == InitPwmSpec /\ [][NextPwm]_vars

\* limit state polling: every raw pattern of the three limit pins under every
\* limit inversion mask
AxisMasks == 0 .. 7
AllLimitPatterns ==
    {x * X_LIMIT_PIN + y * Y_LIMIT_PIN + z * Z_LIMIT_PIN : x, y, z \in {0, 1}}
LimitStateSettings == { [DefaultSettings EXCEPT !.limit_invert = m] : m \in AxisMasks }

InitLimitStateSpec == \E s \in LimitStateSettings : driver_setup(s, {3})

NextLimitState ==
    \/ LimitPinChange(AllLimitPatterns, MaxEdges)
    \/ LimitsGetState

SpecLimitState == InitLimitStateSpec /\ [][NextLimitState]_vars

(***************************************************************************)
(* Properties of the stepper rate timer                                    *)
(***************************************************************************)
SetterOps == {"amass", "prescaled"}

\* C2: stepperGoIdle followed immediately by stepperWakeUp leaves the rate
\* timer running, and by the time stepperWakeUp returns the planner callback
\* has been invoked exactly once.
C2_WakeUpPrimesExactlyOnce ==
    [][ /\ (last'.op = "wakeUp" /\ wake_after_idle')
            => TimerRunning(STEPPER_TIMER_CTL')
        /\ (last'.op = "wakeUpReturn" /\ wake_after_idle)
            => cb_calls = 1 ]_vars

\* C3: the value either setter computes for the countdown register is at most
\* 0xFFFF, and for cycles_per_tick below 2^16 the register holds cycles_per_tick.
C3_CountdownWithinRange ==
    last.op \in SetterOps =>
        /\ last.wr <= 65535
        /\ last.arg < Pow2(16) => STEPPER_TIMER_CCR0 = last.arg

\* C3 witness: the prescaled setter was given a value whose rescaled form does
\* not fit 16 bits, and the register holds the cap.
C3_Witness ==
    /\ last.op = "prescaled"
    /\ ShiftRight(last.arg, 6) > 65535
    /\ STEPPER_TIMER_CCR0 = 65535

\* the divide ratio the prescaled setter is meant to select for c
WantedRatio(c) == IF c < Pow2(16) THEN 1 ELSE IF c < Pow2(19) THEN 8 ELSE 64

\* C4: after stepperCyclesPerTickPrescaled(c) the total divide ratio is 1, 8 or
\* 64 by the thresholds 2^16 and 2^19, the countdown is c divided by that ratio
\* (capped at 0xFFFF), and clock source and run mode are still selected.
C4_PrescaledDivideRatio ==
    last.op = "prescaled" =>
        LET c == last.arg
            scaled == c \div WantedRatio(c)
        IN  /\ InputDivider(STEPPER_TIMER_CTL) * ExtendedDivider(STEPPER_TIMER_EX0)
                 = WantedRatio(c)
            /\ STEPPER_TIMER_CCR0 = (IF scaled < Pow2(16) THEN scaled ELSE 65535)
            /\ BitAnd(STEPPER_TIMER_CTL, TASSEL1) = TASSEL1
            /\ BitAnd(STEPPER_TIMER_CTL, MC0) = MC0

\* C7: the rate timer starts running only through stepperWakeUp and stops only
\* through stepperGoIdle; the cycles-per-tick setters leave a stopped timer stopped.
C7_OnlyWakeUpStartsOnlyGoIdleStops ==
    [][ /\ (~TimerRunning(STEPPER_TIMER_CTL) /\ TimerRunning(STEPPER_TIMER_CTL'))
            => last'.op = "wakeUp"
        /\ (TimerRunning(STEPPER_TIMER_CTL) /\ ~TimerRunning(STEPPER_TIMER_CTL'))
            => last'.op = "goIdle" ]_vars

(***************************************************************************)
(* Properties of step pulse generation                                     *)
(***************************************************************************)
\* the physical step and direction pin fields
StepPins == BitAnd(STEP_PORT_OUT, HWSTEP_MASK)
DirPins == BitAnd(DIRECTION_PORT_OUT, HWDIRECTION_MASK)

\* the spindle PWM is in the state spindleSetSpeed(d) produces
SpindleMatches(d) ==
    IF d = hal_spindle_pwm_off
    THEN PWM_TIMER_CCTL1 = 0
    ELSE PWM_TIMER_CCR1 = d /\ PWM_TIMER_CCTL1 = OUTMOD_2

\* C5: when a pulse start (either variant) returns for a descriptor carrying
\* spindle duty d, the spindle PWM is in the state setSpeed(d) produces.
C5_PulseStartSpindleMatches ==
    last.op \in {"ps_arm", "psd_arm"} => SpindleMatches(stepper.spindle_pwm)

\* C6: after stepper_pulse_isr the physical step field is the idle pattern,
\* logical 0 XOR the step inversion mask, for every inversion mask.
C6_PulseTimeoutRestoresIdle ==
    last.op = "isr_pulse" => StepPins = StepField(0, step_port_invert)

\* C8: stepperGoIdle leaves the pulse timer and the step outputs untouched, and
\* whenever a started pulse ends (the pulse timer stops) it is the pulse-width
\* timeout that ends it and no step line is left asserted.
C8_GoIdleLeavesPulseToComplete ==
    [][ /\ last'.op = "goIdle"
            => /\ PULSE_TIMER_CTL' = PULSE_TIMER_CTL
               /\ STEP_PORT_OUT' = STEP_PORT_OUT
        /\ (TimerRunning(PULSE_TIMER_CTL) /\ ~TimerRunning(PULSE_TIMER_CTL'))
            => /\ last'.op = "isr_pulse"
               /\ BitXor(ShiftRight(BitAnd(STEP_PORT_OUT', HWSTEP_MASK), 1),
                         step_port_invert) = 0 ]_vars

LimitQuiescent ==
    /\ lim_settled
    /\ ~WDTIE
    /\ BitAnd(LIMIT_PORT_IFG, HWLIMIT_MASK) = 0

\* C1: with software debounce and the limit interrupt enabled, N >= 1 limit pin
\* edges that all occur before the debounce window expires, settling to logical
\* state S, give exactly one callback with argument S when S is non-zero and
\* none when S is zero.
C1_DebounceOneCallback ==
    (/\ software_debounce
     /\ LIMIT_PORT_IE = HWLIMIT_MASK
     /\ lim_edges >= 1
     /\ LimitQuiescent)
        => lim_cbs = (IF limitsGetState(LIMIT_PORT_IN) # 0
                      THEN <<limitsGetState(LIMIT_PORT_IN)>>
                      ELSE <<>>)

\* C10: for every raw control pin pattern and every control inversion mask the
\* value systemGetState returns has at most one of the four signals set.
C10_AtMostOneSignal ==
    last.op = "getState" => BitCount(control_state) <= 1

\* the control inputs in priority order, highest first: <<pin, signal>>
PriorityOrder ==
    << <<RESET_PIN, SIGNAL_RESET>>, <<SAFETY_DOOR_PIN, SIGNAL_SAFETY_DOOR>>,
       <<FEED_HOLD_PIN, SIGNAL_FEED_HOLD>>, <<CYCLE_START_PIN, SIGNAL_CYCLE_START>> >>

\* the ranks of the control pins that are high in P
HighRanks(P) == {i \in DOMAIN PriorityOrder : BitAnd(P, PriorityOrder[i][1]) # 0}

\* S: exactly the signal of the highest-priority pin that is high in P
HighestPrioritySignal(P) ==
    IF HighRanks(P) = {}
    THEN 0
    ELSE PriorityOrder[CHOOSE i \in HighRanks(P) : \A j \in HighRanks(P) : i <= j][2]

LogicalMap(P) ==
    (IF BitAnd(P, X_LIMIT_PIN) # 0 THEN 1 ELSE 0)
    + (IF BitAnd(P, Y_LIMIT_PIN) # 0 THEN 2 ELSE 0)
    + (IF BitAnd(P, Z_LIMIT_PIN) # 0 THEN 4 ELSE 0)

\* C12: for every limit inversion mask M and raw limit pin pattern P,
\* limitsGetState returns logicalMap(P) XOR M; applying M to the result again
\* gives back logicalMap(P); the call changes no driver state.
C12_LimitsStateInvertOnce ==
    [][ last'.op = "limitsGet"
            => /\ last'.wr = BitXor(LogicalMap(LIMIT_PORT_IN), settings.limit_invert)
               /\ BitXor(last'.wr, settings.limit_invert) = LogicalMap(LIMIT_PORT_IN)
               /\ UNCHANGED <<settings, vars_rate, vars_pulse, vars_spindle,
                              vars_inputs, vars_sys>> ]_vars

\* C12 witness: polled with some but not all limit pins high under an
\* inversion mask that inverts some but not all axes.
C12_Witness ==
    /\ last.op = "limitsGet"
    /\ settings.limit_invert \in {1, 2, 3, 4, 5, 6}
    /\ LogicalMap(last.arg) \in {1, 2, 3, 4, 5, 6}
    /\ last.wr = BitXor(LogicalMap(last.arg), settings.limit_invert)

(***************************************************************************)
(* Properties of the spindle                                               *)
(***************************************************************************)
\* the scaled rpm r (in hundredths) lies in the linear region
LinearRegion(r) ==
    /\ settings.rpm_min < settings.rpm_max
    /\ r > settings.rpm_min * 100
    /\ r < settings.rpm_max * 100

\* monotone within the linear region, max_value - 1 from rpm_max on, and
\* off_value exactly for a scaled rpm of 0, for the call made in this step
ComputePWMContract ==
    last'.op = "computePWM" =>
        /\ last'.arg >= settings.rpm_max * 100
              => last'.wr = SpindleMaxValue(settings) - 1
        /\ (last'.wr = SpindleOffValue(settings)) <=> (last'.arg = 0)
        /\ (/\ last.op = "computePWM"
            /\ LinearRegion(last.arg)
            /\ LinearRegion(last'.arg)
            /\ last.arg <= last'.arg) => last.wr <= last'.wr

\* the scenario rpm_min=1000, rpm_max=24000, min_value=50, max_value=1000,
\* off_value=0: 1000 -> 50, 24000 -> 999, 0 -> 0
ComputePWMExample ==
    (/\ last'.op = "computePWM"
     /\ settings.rpm_min = 1000
     /\ settings.rpm_max = 24000
     /\ SpindleMinValue(settings) = 50
     /\ SpindleMaxValue(settings) = 1000
     /\ SpindleOffValue(settings) = 0)
        => /\ last'.arg = 100000 => last'.wr = 50
           /\ last'.arg = 2400000 => last'.wr = 999
           /\ last'.arg = 0 => last'.wr = 0

\* a valid configuration: 0 <= rpm_min < rpm_max and max_value > min_value > off_value
ValidPwmConfig ==
    /\ settings.rpm_min >= 0
    /\ settings.rpm_min < settings.rpm_max
    /\ SpindleMaxValue(settings) > SpindleMinValue(settings)
    /\ SpindleMinValue(settings) > SpindleOffValue(settings)

\* C13 as stated: for all rpm targets, overrides and PWM/rpm settings,
\* spindleComputePWMValue is monotonically non-decreasing in the scaled rpm
\* within the linear region, returns max_value - 1 for any scaled rpm >= rpm_max,
\* and returns off_value if and only if the scaled rpm is 0.
C13_ComputePWMAllSettings == [][ComputePWMContract /\ ComputePWMExample]_vars

\* C13 amended: the same for every valid configuration (0 <= rpm_min < rpm_max and
\* max_value > min_value > off_value).
C13_ComputePWMValidSettings ==
    [][ValidPwmConfig => (ComputePWMContract /\ ComputePWMExample)]_vars

\* C13 witness: a conversion inside the linear region of a valid configuration
\* that yields a duty strictly between min_value and max_value - 1.
C13_Witness ==
    /\ last.op = "computePWM"
    /\ ValidPwmConfig
    /\ LinearRegion(last.arg)
    /\ last.wr > SpindleMinValue(settings)
    /\ last.wr < SpindleMaxValue(settings) - 1

\* C14: with rpm_min >= rpm_max spindleComputePWMValue returns max_value - 1
\* and records effective rpm = rpm_max for every rpm and override, rpm = 0
\* included.
C14_MisconfiguredRangeClamps ==
    (last.op = "computePWM" /\ settings.rpm_min >= settings.rpm_max)
        => /\ last.wr = SpindleMaxValue(settings) - 1
           /\ sys_spindle_rpm = settings.rpm_max * 100

\* C14 witness: rpm 0 converted under a misconfigured range.
C14_Witness ==
    /\ last.op = "computePWM"
    /\ settings.rpm_min >= settings.rpm_max
    /\ last.arg = 0
    /\ last.wr = SpindleMaxValue(settings) - 1

\* the spindle is enabled at non-zero duty: PWM output enabled, enable line on
SpindleRunning ==
    /\ PWM_TIMER_CCTL1 # 0
    /\ SPINDLE_ENABLE_OUT = spindleOn(SPINDLE_ENABLE_OUT)

\* C15: over any sequence of set-state and set-speed calls the spindle
\* direction output never changes level while the spindle is enabled at
\* non-zero duty; spindleSetStateVariable writes the direction before anything
\* else, so a call entered with the spindle running must leave the pin as it is.
C15_DirectionHeldWhileRunning ==
    [][SpindleRunning => SPINDLE_DIRECTION_OUT' = SPINDLE_DIRECTION_OUT]_vars
\* C16: after spindleSetSpeed(d) with d different from the off value the enable
\* line is in its on state (under the enable inversion setting) and the duty
\* register holds d with the output compare enabled, whatever preceded the
\* call; after spindleSetSpeed(off value) the output compare is disabled and
\* the enable line is forced off exactly when 'disable with zero speed' is set.
C16_SetSpeedPostcondition ==
    [][ last'.op = "setSpeed" =>
            IF last'.arg # hal_spindle_pwm_off
            THEN /\ SPINDLE_ENABLE_OUT' = spindleOn(SPINDLE_ENABLE_OUT')
                 /\ PWM_TIMER_CCR1' = last'.arg
                 /\ PWM_TIMER_CCTL1' = OUTMOD_2
            ELSE /\ PWM_TIMER_CCTL1' = 0
                 /\ SPINDLE_ENABLE_OUT' =
                       IF settings.spindle_disable_with_zero_speed
                       THEN spindleOff(SPINDLE_ENABLE_OUT)
                       ELSE SPINDLE_ENABLE_OUT ]_vars
(***************************************************************************)
(* Properties of the main flow against the interrupt handlers              *)
(***************************************************************************)
\* the steps of the handlers that read the configuration-derived constants
ConfigReaderOps == {"ps_dir", "psd_dir", "ps_step", "isr_pulse", "isr_delay"}

\* C17: while settings_changed rewrites the configuration-derived constants no
\* interrupt handler that reads them runs between the first and the last write.
C17_NoHandlerDuringSettingsChange ==
    [][last'.op \in ConfigReaderOps => sc_pc = "idle"]_vars
\* no delay is pending: the delay timer is stopped and the main flow is not
\* inside driver_delay_ms
DelayQuiescent == ~TimerRunning(SYSTICK_TIMER_CTL) /\ dl_pc = "idle"

\* C18: every driver_delay_ms(ms, cb) with a non-null cb leads to exactly one
\* invocation of cb (at once when ms = 0, from the delay timer interrupt
\* otherwise), for any sequence of requests: no callback is invoked more often
\* than requested, and once no delay is pending every requested callback has
\* been invoked.
C18_EachCallbackInvokedOnce ==
    \A c \in DelayCallbacks :
        /\ dl_invoked[c] <= dl_requested[c]
        /\ DelayQuiescent => dl_invoked[c] = dl_requested[c]
\* C19: the atomic helpers are atomic with respect to handlers that modify the
\* same word: the write of a helper is its modification of the content the
\* word has immediately before that write (so no update of a handler is
\* lost), and bitsClearAtomic and valueSetAtomic return that content.
C19_HelpersAtomic ==
    [][/\ last'.op = "atomicWrite" =>
            /\ at_word' = AtomicApply(at_op.fn, at_word, at_op.arg)
            /\ at_prev = at_word
       /\ (last'.op = "atomicReturn" /\ at_op.fn # "bitsSet") =>
            at_ret' = last.wr]_vars

\* a handler has changed the word between two helper calls, and the clear
\* helper has returned the content the handler left behind
C19_Witness ==
    /\ last.op = "atomicReturn"
    /\ last.arg.fn = "bitsClear"
    /\ at_ret = 3
    /\ at_word = BitClear(3, last.arg.arg)
    /\ last.arg.arg = 1
\* C20: with software debounce the window is fixed-length and armed by the
\* first limit edge: the limit state is re-sampled at the third debounce tick
\* after that edge, and while the window is open fewer than three ticks have
\* passed since it, however many further edges arrive.
C20_WindowThreeTicksFromFirstEdge ==
    [][/\ last'.op = "debounced" => lim_ticks' = 3
       /\ (software_debounce /\ WDTIE') => lim_ticks' < 3]_vars
\* C21: the planner callback hal.stepper_interrupt_callback is never
\* re-entered: the invocation made by stepperWakeUp (priming) and an invocation
\* made by stepper_driver_isr (busy) are never active at once, and the
\* interrupt never starts an invocation while one it started is running.
C21_CallbackNeverReentered ==
    /\ ~(priming /\ busy)
    /\ last.op = "isr" => busy
\* C22: spindle state round trip: after spindleSetStateVariable(s, rpm, ovr)
\* with s.on and non-zero rpm, spindleGetState() returns s (same on flag, same
\* ccw flag) under every inversion mask; after a set-state with s.on = false
\* it reports on = false.
C22_SpindleStateRoundTrip ==
    last.op = "setState" =>
        /\ (last.arg.on /\ last.arg.rpm # 0) =>
               /\ spindleGetState.on = TRUE
               /\ spindleGetState.ccw = last.arg.ccw
        /\ ~last.arg.on => spindleGetState.on = FALSE
\* C23: outside a running driver function the cached flag pwmEnabled is true
\* exactly when the spindle PWM output compare is enabled; no operation,
\* settings_changed included, switches the output without updating the flag.
C23_PwmFlagMatchesOutput ==
    pwmEnabled = (PWM_TIMER_CCTL1 # 0)
\* C24: the debounce counter is between 0 and 3, the debounce tick interrupt
\* is enabled only while the counter is at least 1 (so the tick handler never
\* decrements it from 0), and once a window has completed the counter is 0
\* with the tick interrupt disabled.
C24_DebounceCounterInRange ==
    /\ debounce_count \in 0 .. 3
    /\ WDTIE => debounce_count >= 1
    /\ last.op = "debounced" => (debounce_count = 0 /\ ~WDTIE)

\* a window that was re-armed by a further edge has completed
C24_Witness ==
    /\ last.op = "debounced"
    /\ lim_ticks >= 4
    /\ debounce_count = 0
    /\ ~WDTIE
\* the limit pin interrupts are switched off, as limitsEnable(false) leaves them
LimitsDisabled == BitAnd(LIMIT_PORT_IE, HWLIMIT_MASK) = 0

\* C25: after limitsEnable(false) has returned the limit callback is not
\* invoked until limits are enabled again, also when a debounce window was
\* armed by an edge that arrived before the disable.
C25_NoCallbackWhileDisabled ==
    [][(LimitsDisabled /\ LimitsDisabled') => lim_cbs' = lim_cbs]_vars
(***************************************************************************)
(* Properties of the serial queues                                         *)
(***************************************************************************)
IsPrefix(p, q) == Len(p) <= Len(q) /\ SubSeq(q, 1, Len(p)) = p

\* C26: under every interleaving of serialPutC with the transmit interrupt the
\* bytes the handler writes to the data register are the bytes of the calls
\* that return true, in order and once each; the handler never sends a slot
\* that is not between tail and head, and the transmit interrupt is not left
\* enabled with an empty queue.
C26_TransmitQueueInOrder ==
    /\ IsPrefix(tx_sent, tx_accepted)
    /\ last.op = "usartTx" => last.wr.tail # last.wr.head
    /\ (tx_pc = "idle" /\ USART_CR1_TXEIE) => txbuf.tail # txbuf.head
RxQueued == RingContent(rxbuf.data, rxbuf.tail, rxbuf.head, RX_BUFFER_SIZE)

\* a byte arriving on a full queue is discarded: overflow set, head, tail and
\* stored bytes unchanged
RxOverflowDiscards ==
    last.op = "rxOverflow" =>
        /\ rxbuf = [last.wr EXCEPT !.overflow = 1]
        /\ BitAnd(last.wr.head + 1, RX_BUFFER_SIZE - 1) = last.wr.tail

\* serialGetC returns -1 only with head = tail and then changes nothing
RxEmptyReturnsMinusOne ==
    last.op = "getC_none" =>
        /\ rx_ret = -1
        /\ rxbuf = last.wr
        /\ rxbuf.head = rxbuf.tail

\* the bytes returned so far followed by the unread bytes are the received
\* bytes that were kept, and a byte is returned only from a non-empty queue
RxDeliversKept ==
    /\ rx_got \o RxQueued = rx_kept
    /\ last.op = "getC_take" => last.wr.head # last.wr.tail

=============================================================================
